---- MODULE Spec2Model ----
(***************************************************************************)
(* Trade execution and reconciliation engine of gate_bob_deploy.           *)
(*                                                                         *)
(* One (symbol, side) slot of context.position_vars is modelled together   *)
(* with its order_status_book entry, the handle_signal tasks that open a   *)
(* position on it, the limit-order timeout supervisor, the reconciliation  *)
(* loop, the risk-order manager (modify / force close) and the exchange.   *)
(*                                                                         *)
(* Python dicts that the code replaces rather than mutates (the            *)
(* PositionState dict in set_pos_defaults(reset_flag=True), the anchor     *)
(* dict in update_anchor_state) are objects with identity: tasks keep      *)
(* references, and a reference taken before the replacement no longer      *)
(* designates the stored object.                                           *)
(*                                                                         *)
(* Every action is one run of a coroutine between two suspension points    *)
(* (an HTTP request, a Telegram call or an asyncio.sleep).  `async with    *)
(* queues_msg_lock` never suspends: no holder awaits inside the block.     *)
(*                                                                         *)
(* Prices are integers (ticks) and quantities are integers (contracts);    *)
(* the instrument has order_price_round "1", order_size_min "1" and        *)
(* quanto_multiplier "1", hence price_precision = contract_precision = 0.  *)
(***************************************************************************)
EXTENDS Integers, Sequences, FiniteSets, TLC

\* ------------------------------------------------------------------ bounds
MaxSignals == 2          \* signals dispatched in one trading iteration
MaxResets == 1           \* reconciler resets of the slot
MaxUserOps == 2          \* modify / force-close requests of the user
MaxAttempts == 3         \* transport errors met by one _request call
MaxResetFaults == 9      \* failed answers while the reconciler resets a slot
MaxLoops == 3            \* reconciler loops alive at the same time
MaxPosts == 4            \* channel posts delivered to the watcher
max_cache == 2           \* TgBotWatcherAiogram.max_cache (200 in the source), scaled down

\* --------------------------------------------------------- program values
NULL == -1               \* Python None in a numeric / id field
VirtualBase == 100       \* ids >= VirtualBase stand for "virtual_..." ids
EPSILON_NUM == 5         \* epsilon_pct = 0.05 = EPSILON_NUM / EPSILON_DEN
EPSILON_DEN == 100
MarginSize == 1000       \* fin_settings["margin_size"]
Leverage == 15           \* fin_settings["leverage"]
MaxLeverage == 20        \* spec["max_leverage"]
SoftTag == 1             \* settings tag "soft"
CtVal == 1               \* spec["ctVal"]
LotSz == 1               \* spec["lotSz"]
CurPrice == 10000        \* last price of the ticker
C_TIME == 1              \* a set open timestamp

Signals == 1..MaxSignals
Sides == {"LONG", "SHORT"}

\* ----------------------------------------------------------- status texts
ST_NONE == "none"
ST_WAITING == "waiting"
ST_PENDING == "pending"
ST_FILLED == "filled"
ST_TIMEOUT == "failed. Reason: TIME-OUT"
ST_CLOSED_MANUALLY == "closed manually"
ST_FINISHED == "finished"
ST_CANCELLED == "cancelled"
ST_MODIFIED == "modified"
ST_INVALID_DATA == "Invalid data"
ST_FAILED_LABEL == "failed. Reason: LABEL (detail)"
ST_FAILED_ERROR == "failed. Reason: LABEL: detail"
ST_FAILED_EMPTY == "failed. Reason: Empty or invalid response"
ST_FAILED_UNKNOWN == "failed. Reason: unknown"
ST_FAILED_CONTRACTS == "failed. Reason: CONTRACTS=0"
ST_FAILED_CANCEL == "failed. Reason: Main error / Price error"
ST_FAILED_NO_CONTRACTS == "failed. Reason: NO_CONTRACTS"
ST_FAILED_UNKNOWN_RESPONSE == "failed. Reason: UNKNOWN_RESPONSE"
ST_FAILED_TP_ORDER == "failed. Reason: TP_ORDER_FAILED"
ST_FAILED_SL_ORDER == "failed. Reason: SL_ORDER_FAILED"
PNL_OPEN == "PNL: not finished"
PNL_UNKNOWN == "PNL: unavailable"
PNL_TEXT == "PNL: x usdt"

\* ------------------------------------------------------------ arithmetic
Abs(x) == IF x < 0 THEN -x ELSE x

Min(a, b) == IF a <= b THEN a ELSE b

\* Python round(n / d) for n >= 0, d > 0: ties go to the even neighbour.
RoundHalfEven(n, d) ==
    LET q == n \div d
        r == n % d
    IN  IF 2 * r < d THEN q
        ELSE IF 2 * r > d THEN q + 1
        ELSE IF q % 2 = 0 THEN q ELSE q + 1

safe_float(value, default) == IF value = NULL THEN default ELSE value

\* fix_price_scale: multiply the price by the power of ten nearest (in
\* log10) to cur_price / price; a multiplier of 1 leaves the price alone.
\* round(log10(ratio)) = k  iff  10^(2k-1) < ratio^2 < 10^(2k+1); the
\* square of a rational is never an odd power of ten, so the integer
\* quotients of the squares decide.
fix_price_scale(price, cur_price) ==
    IF price = NULL \/ cur_price = NULL \/ price <= 0 \/ cur_price <= 0 THEN price
    ELSE LET c2 == cur_price * cur_price
             p2 == price * price
         IN  IF c2 \div p2 >= 1000 THEN price * 100
             ELSE IF c2 \div p2 >= 10 THEN price * 10
             ELSE IF p2 \div c2 < 10 THEN price
             ELSE IF p2 \div c2 < 1000 THEN price \div 10
             ELSE price \div 100

\* ------------------------------------------------------- pure functions
\* validate_risk_order, with the reason texts stripped of their numbers.
validate_ok(x) == x # NULL /\ x > 0

\* pct_diff(a, b) < epsilon_pct, i.e. |a - b| / a * 100 < 0.05
pct_too_close(a, b) == Abs(a - b) * 100 * EPSILON_DEN < EPSILON_NUM * a

validate_risk_order(pos_side, cur_price, sl, tp) ==
    IF ~validate_ok(cur_price) THEN "Invalid current price"
    ELSE IF pos_side \notin Sides THEN "Invalid position side"
    ELSE IF pos_side = "LONG" THEN
        IF sl # NULL /\ ~validate_ok(sl) THEN "Invalid stop-loss"
        ELSE IF sl # NULL /\ sl >= cur_price THEN "Stop-loss must be BELOW current price"
        ELSE IF sl # NULL /\ pct_too_close(cur_price, sl) THEN "Stop-loss too close"
        ELSE IF tp # NULL /\ ~validate_ok(tp) THEN "Invalid take-profit"
        ELSE IF tp # NULL /\ tp <= cur_price THEN "Take-profit must be ABOVE current price"
        ELSE IF tp # NULL /\ pct_too_close(cur_price, tp) THEN "Take-profit too close"
        ELSE "ok"
    ELSE
        IF sl # NULL /\ ~validate_ok(sl) THEN "Invalid stop-loss"
        ELSE IF sl # NULL /\ sl <= cur_price THEN "Stop-loss must be ABOVE current price"
        ELSE IF sl # NULL /\ pct_too_close(cur_price, sl) THEN "Stop-loss too close"
        ELSE IF tp # NULL /\ ~validate_ok(tp) THEN "Invalid take-profit"
        ELSE IF tp # NULL /\ tp >= cur_price THEN "Take-profit must be BELOW current price"
        ELSE IF tp # NULL /\ pct_too_close(cur_price, tp) THEN "Take-profit too close"
        ELSE "ok"

\* build_take_profits: a sequence of <<price, volume percent>>.  safe_float
\* turns a missing TP into 0.0, which is a float and stays in the list.
build_take_profits(parsed_msg, dop_tp, pos_side, entry_price) ==
    IF entry_price = NULL \/ entry_price <= 0 THEN <<>>
    ELSE IF pos_side \notin Sides THEN <<>>
    ELSE
      LET first == safe_float(parsed_msg.take_profit1, 0)
          tp1_price == IF first # 0 THEN first ELSE safe_float(parsed_msg.take_profit, 0)
          given2 == safe_float(parsed_msg.take_profit2, 0)
          sign == IF pos_side = "LONG" THEN 1 ELSE -1
          distance == Abs(tp1_price - entry_price)
          tp2_price == IF tp1_price # 0 /\ dop_tp # NULL /\ dop_tp # 0 /\ given2 = 0
                       THEN RoundHalfEven(entry_price * 100 + sign * distance * dop_tp, 100)
                       ELSE given2
      IN  IF tp1_price <= tp2_price
          THEN << <<tp1_price, 50>>, <<tp2_price, 50>> >>
          ELSE << <<tp2_price, 50>>, <<tp1_price, 50>> >>

\* A faulty variant of the sizing: the quantity is cut down to whole lots
\* instead of rounded to the nearest one.
contract_calc_floor(margin_size, entry_price, leverage, ctVal, lotSz, volume_rate) ==
    IF \E x \in {margin_size, entry_price, leverage, ctVal, lotSz} : x = NULL \/ x <= 0
    THEN NULL
    ELSE LET contracts ==
                 ((margin_size * volume_rate * leverage)
                     \div (100 * entry_price * ctVal * lotSz)) * lotSz
         IN  IF contracts <= 0 THEN NULL ELSE contracts

\* contract_calc: NULL stands for the None it returns on rejection.
contract_calc(margin_size, entry_price, leverage, ctVal, lotSz, volume_rate) ==
    IF \E x \in {margin_size, entry_price, leverage, ctVal, lotSz} : x = NULL \/ x <= 0
    THEN NULL
    ELSE LET contracts ==
                 RoundHalfEven(margin_size * volume_rate * leverage,
                               100 * entry_price * ctVal * lotSz) * lotSz
         IN  IF contracts <= 0 THEN NULL ELSE contracts

\* _compose_trigger_payloads: the TP payloads that survive the price and
\* size checks, and the SL payload (NULL when there is no stop-loss).
RECURSIVE compose_tp_orders(_, _)
compose_tp_orders(contracts, take_profits) ==
    IF take_profits = <<>> THEN <<>>
    ELSE LET price == Head(take_profits)[1]
             portion == Head(take_profits)[2]
             tp_contracts == RoundHalfEven(contracts * portion, 100)
             rest == compose_tp_orders(contracts, Tail(take_profits))
         IN  IF price <= 0 \/ tp_contracts <= 0 THEN rest
             ELSE <<[trigger_px |-> price, contracts |-> tp_contracts]>> \o rest

compose_sl_order(contracts, stop_loss) ==
    IF stop_loss # NULL /\ stop_loss > 0
    THEN [trigger_px |-> stop_loss, contracts |-> contracts]
    ELSE [trigger_px |-> NULL, contracts |-> NULL]

\* --------------------------------------------------------- data templates
pos_vars_root_template ==
    [leverage |-> NULL, margin_vol |-> NULL, vol_usdt |-> NULL, vol_assets |-> NULL,
     contracts |-> NULL, entry_price |-> NULL, pending_open |-> FALSE,
     in_position |-> FALSE, order_id |-> NULL, tp_order1_id |-> NULL,
     tp_order2_id |-> NULL, sl_order_id |-> NULL, c_time |-> NULL,
     settings_tag |-> NULL]

default_record(leverage, entry_price) ==
    [leverage |-> leverage, order_type |-> "none", entry_price |-> entry_price,
     entry_status |-> ST_NONE, tp1 |-> NULL, tp2 |-> NULL,
     tp1_status |-> ST_NONE, tp2_status |-> ST_NONE, sl |-> NULL,
     sl_status |-> ST_NONE, pnl_text |-> PNL_OPEN]

\* The signals the parser hands over: every mandatory field is present and
\* positive (parse_tg_message: ok = all(result[k] for k in mandatory)).
\* Offsets are in the favourable direction of the side.
SignalKinds ==
    { [entry_price |-> CurPrice, sl_off |-> 100, tp1_off |-> 100, tp2_off |-> 200, force_limit |-> FALSE],
      [entry_price |-> CurPrice, sl_off |-> 100, tp1_off |-> 100, tp2_off |-> 200, force_limit |-> TRUE],
      [entry_price |-> CurPrice, sl_off |-> 4, tp1_off |-> 100, tp2_off |-> 200, force_limit |-> FALSE],
      [entry_price |-> CurPrice, sl_off |-> 100, tp1_off |-> 100, tp2_off |-> NULL, force_limit |-> FALSE] }

parse_tg_message(kind, pos_side) ==
    LET sign == IF pos_side = "LONG" THEN 1 ELSE -1
    IN  [entry_price |-> kind.entry_price,
         stop_loss |-> kind.entry_price - sign * kind.sl_off,
         take_profit1 |-> kind.entry_price + sign * kind.tp1_off,
         take_profit2 |-> IF kind.tp2_off = NULL THEN NULL
                          ELSE kind.entry_price + sign * kind.tp2_off,
         take_profit |-> NULL,
         leverage |-> Leverage,
         force_limit |-> kind.force_limit,
         half_margin |-> FALSE]

NoMsg == parse_tg_message(CHOOSE k \in SignalKinds : TRUE, "LONG")

\* ------------------------------------------------------------------ state
VARIABLES
    side,                \* pos_side of the modelled slot
    slot,                \* id of the dict stored at position_vars[symbol][side]; 0: none yet
    posObjs,             \* heap of PositionState dicts, by id
    records,             \* heap of OrderStatusRecord dicts, by id
    anchor,              \* order_status_book[chat_id][(symbol, side)]
    sig,                 \* handle_signal task of each signal
    sup,                 \* complete_until_cancel task of each signal
    recon,               \* refresh_positions_task
    usr,                 \* user requests handled by the notifier callbacks
    first_update_done,   \* Synchronizer._first_update_done
    tg_timing_cache,     \* context.tg_timing_cache
    signal_locks,        \* context.signal_locks
    stop_bot_iteration,  \* context.stop_bot_iteration
    exOrders,            \* exchange: resting main limit orders, by signal
    exSize,              \* exchange: size of the open position, in fills
    liveTrig,            \* exchange: live trigger orders [id, kind]
    faultsLeft,          \* failed or empty responses the network may still give
    resets,              \* completed reconciler resets
    mainPlaced,          \* signals whose place_main_order request was sent
    trigPlaced,          \* signals that sent a trigger-order request
    cancelReqs,          \* trigger ids modify_risk_orders asked to cancel
    reconLog,            \* bookkeeping of the reconciliation cycles
    gate_client,         \* GateFuturesClient: its copy of the stop flag, and one _request call
    calc,                \* a call of a helper function: its name, arguments and result
    core,                \* Core.run_forever, context.start_bot_iteration, the live reconciler loops
    tg_watcher,          \* TgBotWatcherAiogram: its message_cache reference and _seen_messages
    message_caches       \* heap of message lists, by id; context.message_cache is list 1

vars == <<side, slot, posObjs, records, anchor, sig, sup, recon, usr,
          first_update_done, tg_timing_cache, signal_locks, stop_bot_iteration,
          exOrders, exSize, liveTrig, faultsLeft, resets, mainPlaced, trigPlaced,
          cancelReqs, reconLog, gate_client, calc, core, tg_watcher, message_caches>>

\* The variables of the running bot.
bot == <<side, slot, posObjs, records, anchor, sig, sup, recon, usr,
         first_update_done, tg_timing_cache, signal_locks, stop_bot_iteration,
         exOrders, exSize, liveTrig, faultsLeft, resets, mainPlaced, trigPlaced,
         cancelReqs, reconLog, gate_client, core, tg_watcher, message_caches>>

\* run_forever inside _run_iteration's dispatch loop after an accepted
\* START: the iteration's reconciler loop is the one live loop.  `served`
\* tells whether _run_iteration has been entered since start_bot_iteration
\* was last set.
CoreRunning == [pc |-> "running", start_bot_iteration |-> TRUE, served |-> TRUE, loops |-> 1]

\* TgBotWatcherAiogram.__init__: `self.message_cache = context.message_cache`
\* takes a reference to the context's list (list 1, [] at first), `_seen_messages` is
\* empty.  `posts` counts the channel posts delivered, `last` is the
\* timestamp of the latest post.
TgBotWatcherAiogram == [message_cache |-> 1, seen |-> {}, posts |-> 0, last |-> 0]

\* No helper call under study.
NoCall == [fn |-> "none", args |-> <<>>, out |-> <<>>]

MaxFaults == 1           \* failed or empty responses in one behaviour
max_retries == 7         \* attempts of get_realized_pnl
MSG_ID == 1              \* message id Telegram returns for the anchor message

\* An anchor dict.  `origin` (the signal whose complete_signal_task created
\* the dict) and `held` (the dict a running user request looked up) tell
\* whether a reference taken earlier still designates the stored dict.
NoAnchor == [exists |-> FALSE, last_data |-> 0, message_id |-> 0, hash |-> <<>>,
             origin |-> 0, held |-> FALSE]
NoPush == [msg |-> 0, hash |-> <<>>]

SigIdle ==
    [pc |-> "idle", msg |-> NoMsg, pos |-> 0, rec |-> 0, cur_price |-> NULL,
     take_profits |-> <<>>, order_type |-> "none", contracts |-> NULL,
     tp_orders |-> <<>>, tp_results |-> <<>>, response |-> FALSE, push |-> NoPush]

\* `issued`: the bulk cancel requests the supervisor has sent; `expired`:
\* the outcome of the time test of the loop when it was left.
SupIdle == [pc |-> "idle", pos |-> 0, rec |-> 0, timed_out |-> FALSE, expired |-> FALSE,
            issued |-> {},
            main_resp |-> "none", main_count |-> 0, push |-> NoPush]

ReconIdle == [pc |-> "idle", pos |-> 0, rec |-> 0, size |-> 0, text_pnl |-> "",
              attempt |-> 0, push |-> NoPush]

\* `n` counts the requests started, `accepted` tells whether the exchange
\* accepted a closing order for the running force close.
UsrIdle == [pc |-> "idle", op |-> "none", n |-> 0, pos |-> 0, rec |-> 0, anc_msg |-> 0,
            old_id |-> NULL, new_id |-> NULL, close_type |-> "none",
            close_info |-> "none", resp |-> "none", limit_live |-> FALSE, accepted |-> FALSE,
            result |-> FALSE,
            push |-> NoPush]

\* reconLog: `last` is the position map handed to the latest
\* update_positions call provided nothing but the reconciler has run since
\* that call started ("none" otherwise), `repeat` marks a running call that
\* follows such a call with the same map, `pushes` counts the notifier
\* calls of the running (or latest) call, `raised` tells that the latest
\* call ended in its `except Exception` branch (debug_error_notes).
ReconLogInit == [last |-> "none", repeat |-> FALSE, pushes |-> 0, raised |-> FALSE]

\* A response to an HTTP request: "ok", or a fault while the budget lasts:
\* "label" (an error body) or "empty" ({} : non-JSON body, cancelled call).
Responses == {"ok"} \cup (IF faultsLeft > 0 THEN {"label", "empty"} ELSE {})

Charge(r) == faultsLeft' = faultsLeft - (IF r = "ok" THEN 0 ELSE 1)

\* Any step of a task other than the reconciler, and any change on the
\* exchange, ends the stretch in which reconciler calls count as successive.
Disturb == reconLog' = ReconLogInit

\* GateFuturesClient.__init__: `self.stop_bot_iteration =
\* context.stop_bot_iteration` copies the value the flag has at that moment.
\* `event` is what the latest attempt of _request met.
GateFuturesClient(context_stop_bot_iteration) ==
    [stop_bot_iteration |-> context_stop_bot_iteration,
     pc |-> "idle", attempt |-> 0, result |-> "none", event |-> "none"]

\* ------------------------------------------------- notifier (publish call)
\* update_anchor_state up to its Telegram call: look the anchor up (create
\* it when missing), compare the text hash, and return early when nothing
\* changed.  The hash of the status text is the record's content.
update_anchor_sync(anc, rid, record, force_message_id) ==
    LET a0 == IF anc.exists THEN anc
              ELSE [NoAnchor EXCEPT !.exists = TRUE]
        new_hash == <<record>>
        old_msg_id == IF force_message_id # 0 THEN force_message_id ELSE a0.message_id
        early == a0.hash = new_hash /\ old_msg_id # 0
    IN  [early |-> early,
         anchor |-> IF early THEN [a0 EXCEPT !.last_data = rid, !.hash = new_hash] ELSE a0,
         push |-> [msg |-> old_msg_id, hash |-> new_hash]]

\* update_anchor_state after the Telegram call: the book entry is replaced
\* by a new dict.
update_anchor_done(rid, push) ==
    [exists |-> TRUE, last_data |-> rid,
     message_id |-> IF push.msg # 0 THEN push.msg ELSE MSG_ID,
     hash |-> push.hash, origin |-> 0, held |-> FALSE]

\* `current_anchor["last_data"] = record` through a reference: it reaches
\* the book only when the book still holds that dict.
anchor_write(anc, fresh, rid) ==
    IF anc.exists /\ fresh THEN [anc EXCEPT !.last_data = rid] ELSE anc

\* ------------------------------------------------------------ order ids
TpKind(i) == IF i = 1 THEN "tp1" ELSE "tp2"
MainId(s) == 10 * s + 1
TpId(s, i) == 10 * s + 1 + i
SlId(s) == 10 * s + 4

\* ------------------------------------------------ the signal task (Core)
\* _run_iteration, body of the dispatch loop for one cached message: the
\* dedupe key enters tg_timing_cache, a lock is registered and the
\* handle_signal task is created.  Messages are posted one after the
\* other: message s is in message_cache once its predecessors were seen.
already_seen_never(msg_key, cache) == FALSE

\* `if msg_key in self.context.tg_timing_cache: continue`
already_seen(msg_key, cache) == msg_key \in cache

Dispatch(s) ==
    /\ ~stop_bot_iteration
    /\ s <= Cardinality(tg_timing_cache) + 1
    /\ ~already_seen(s, tg_timing_cache)
    /\ s \notin signal_locks
    /\ \E kind \in SignalKinds :
          sig' = [sig EXCEPT ![s] = [SigIdle EXCEPT !.pc = "hs_start",
                                      !.msg = parse_tg_message(kind, side)]]
    /\ tg_timing_cache' = tg_timing_cache \cup {s}
    /\ signal_locks' = signal_locks \cup {s}
    /\ Disturb
    /\ UNCHANGED <<side, gate_client, calc, core, tg_watcher, message_caches, slot, posObjs, records, anchor, sup, recon, usr,
                   first_update_done, stop_bot_iteration, exOrders, exSize, liveTrig,
                   faultsLeft, resets, mainPlaced, trigPlaced, cancelReqs>>

\* set_pos_defaults without reset_flag: the slot dict is created only
\* when it is missing.  Returns <<slot id, heap>>.
set_pos_defaults(cur_slot, objs) ==
    IF cur_slot = 0 THEN <<Len(objs) + 1, Append(objs, pos_vars_root_template)>>
    ELSE <<cur_slot, objs>>

\* A faulty variant of the finally block: the entry stays.
hs_finally_keep(locks, msg_key) == locks

\* handle_signal's finally block: `if msg_key in signal_locks: del
\* signal_locks[msg_key]`; `async with lock` has released the lock itself.
hs_finally(locks, msg_key) == locks \ {msg_key}

gate_skips_open_only(pos_data) == pos_data.in_position

\* The admission test of handle_signal.
gate_skips(pos_data) == pos_data.in_position \/ pos_data.pending_open

\* handle_signal from the gate to the price request.
HsGate(s, sl, objs) ==
    IF gate_skips(objs[sl])
    THEN /\ posObjs' = objs
         /\ sig' = [sig EXCEPT ![s].pc = "done"]
         /\ signal_locks' = hs_finally(signal_locks, s)
    ELSE /\ posObjs' = [objs EXCEPT ![sl].settings_tag = SoftTag,
                                    ![sl].leverage = Min(Leverage, MaxLeverage),
                                    ![sl].margin_vol = MarginSize]
         /\ sig' = [sig EXCEPT ![s].pc = "hs_prices"]
         /\ UNCHANGED signal_locks

\* handle_signal, first run of the task: set_pos_defaults, then either the
\* wait for the first reconciliation or the gate.
HsEnter(s) ==
    /\ sig[s].pc = "hs_start"
    /\ LET d == set_pos_defaults(slot, posObjs)
       IN  /\ slot' = d[1]
           /\ IF first_update_done THEN HsGate(s, d[1], d[2])
              ELSE /\ posObjs' = d[2]
                   /\ sig' = [sig EXCEPT ![s].pc = "hs_wait"]
                   /\ UNCHANGED signal_locks
    /\ Disturb
    /\ UNCHANGED <<side, gate_client, calc, core, tg_watcher, message_caches, records, anchor, sup, recon, usr, first_update_done,
                   tg_timing_cache, stop_bot_iteration, exOrders, exSize, liveTrig,
                   faultsLeft, resets, mainPlaced, trigPlaced, cancelReqs>>

\* handle_signal, leaving `while not _first_update_done: sleep(0.1)`.
HsWake(s) ==
    /\ sig[s].pc = "hs_wait"
    /\ first_update_done
    /\ HsGate(s, slot, posObjs)
    /\ Disturb
    /\ UNCHANGED <<side, gate_client, calc, core, tg_watcher, message_caches, slot, records, anchor, sup, recon, usr, first_update_done,
                   tg_timing_cache, stop_bot_iteration, exOrders, exSize, liveTrig,
                   faultsLeft, resets, mainPlaced, trigPlaced, cancelReqs>>

\* --------------------------------------- initial_order_template (signal)
\* complete_signal_task after initial_order_template returned: a limit
\* order that was placed gets its supervisor; handle_signal's finally
\* drops the lock entry.
IotReturn(s, task, response) ==
    /\ sig' = [sig EXCEPT ![s] = [task EXCEPT !.pc = "done", !.push = NoPush,
                                              !.response = response]]
    /\ signal_locks' = hs_finally(signal_locks, s)
    /\ sup' = IF task.order_type = "limit" /\ response
              THEN [sup EXCEPT ![s] = [SupIdle EXCEPT !.pc = "start", !.pos = task.pos,
                                                      !.rec = task.rec]]
              ELSE sup

\* initial_order_template's finally block up to the Telegram call.
IotFinally(s, task, anc, recs, response) ==
    LET rid == task.rec
        a1 == anchor_write(anc, anc.origin = s, rid)
        u == update_anchor_sync(a1, rid, recs[rid], 0)
    IN  /\ records' = recs
        /\ anchor' = u.anchor
        /\ IF u.early THEN IotReturn(s, task, response)
           ELSE /\ sig' = [sig EXCEPT ![s] = [task EXCEPT !.pc = "iot_push",
                                                          !.response = response,
                                                          !.push = u.push]]
                /\ UNCHANGED <<signal_locks, sup>>

\* The verdict of complete_signal_task's validation block on the record.
cst_validate(record, pos_side, cur_price, stop_loss, take_profits) ==
    IF take_profits = <<>>
    THEN [record EXCEPT !.tp1_status = ST_INVALID_DATA, !.tp2_status = ST_INVALID_DATA]
    ELSE LET risk_sl == validate_risk_order(pos_side, cur_price, stop_loss, NULL)
             tp_status(i) == validate_risk_order(pos_side, cur_price, NULL, take_profits[i][1])
             bad == {i \in 1..Len(take_profits) : tp_status(i) # "ok"}
             risk_tp == IF bad = {} THEN "ok"
                        ELSE tp_status(CHOOSE i \in bad : \A j \in bad : i <= j)
         IN  IF risk_tp # "ok" THEN [record EXCEPT !.entry_status = risk_tp]
             ELSE IF risk_sl # "ok" THEN [record EXCEPT !.entry_status = risk_sl]
             ELSE record

\* A faulty variant of the test: only a missing take-profit gives the
\* signal up.
cst_aborts_tp_only(record) == record.tp1_status = ST_INVALID_DATA

\* complete_signal_task's test for giving the signal up.
cst_aborts(record) ==
    record.entry_status # ST_WAITING \/ record.tp1_status = ST_INVALID_DATA

\* handle_signal after get_all_current_prices answered, and
\* complete_signal_task up to its first await: price rescaling, the new
\* record and anchor, validation, and then either the rejection publish or
\* initial_order_template up to the set_leverage request.
HsPrices(s) ==
    /\ sig[s].pc = "hs_prices"
    /\ \E r \in Responses :
        LET cur_price == IF r = "ok" THEN CurPrice ELSE NULL
            m0 == sig[s].msg
            msg == [m0 EXCEPT !.entry_price = fix_price_scale(m0.entry_price, cur_price),
                              !.take_profit1 = fix_price_scale(m0.take_profit1, cur_price),
                              !.take_profit2 = fix_price_scale(m0.take_profit2, cur_price),
                              !.stop_loss = fix_price_scale(m0.stop_loss, cur_price),
                              !.take_profit = fix_price_scale(m0.take_profit, cur_price)]
            pos_data == posObjs[slot]
            order_type == IF msg.force_limit THEN "limit" ELSE "market"
            rec0 == [default_record(pos_data.leverage, pos_data.entry_price)
                        EXCEPT !.order_type = order_type,
                               !.entry_price = msg.entry_price,
                               !.entry_status = ST_WAITING]
            take_profits == build_take_profits(msg, NULL, side, msg.entry_price)
            rec1 == cst_validate(rec0, side, cur_price, msg.stop_loss, take_profits)
            rid == Len(records) + 1
            anc == [exists |-> TRUE, last_data |-> rid, message_id |-> 0,
                    hash |-> <<>>, origin |-> s, held |-> FALSE]
            rec2 == [rec1 EXCEPT !.tp1 = take_profits[1][1], !.tp2 = take_profits[2][1],
                                 !.sl = msg.stop_loss]
            task == [sig[s] EXCEPT !.msg = msg, !.cur_price = cur_price, !.rec = rid,
                                   !.pos = slot, !.order_type = order_type,
                                   !.take_profits = take_profits]
        IN  /\ Charge(r)
            /\ IF cst_aborts(rec1)
               THEN /\ records' = Append(records, rec1)
                    /\ anchor' = anc
                    /\ sig' = [sig EXCEPT ![s] = [task EXCEPT !.pc = "cst_push",
                                    !.push = update_anchor_sync(anc, rid, rec1, 0).push]]
                    /\ UNCHANGED <<signal_locks, sup>>
               ELSE IF pos_data.leverage = NULL
               THEN \* set_leverage returns {} without a request
                    IotFinally(s, task, anc, Append(records, rec2), FALSE)
               ELSE /\ records' = Append(records, rec2)
                    /\ anchor' = anc
                    /\ sig' = [sig EXCEPT ![s] = [task EXCEPT !.pc = "iot_leverage"]]
                    /\ UNCHANGED <<signal_locks, sup>>
    /\ Disturb
    /\ UNCHANGED <<side, gate_client, calc, core, tg_watcher, message_caches, slot, posObjs, recon, usr, first_update_done,
                   tg_timing_cache, stop_bot_iteration, exOrders, exSize,
                   liveTrig, resets, mainPlaced, trigPlaced, cancelReqs>>

\* complete_signal_task, rejection path after the Telegram call returned;
\* handle_signal's finally drops the lock entry.
CstPushDone(s) ==
    /\ sig[s].pc = "cst_push"
    /\ anchor' = update_anchor_done(sig[s].rec, sig[s].push)
    /\ sig' = [sig EXCEPT ![s].pc = "done", ![s].push = NoPush]
    /\ signal_locks' = hs_finally(signal_locks, s)
    /\ Disturb
    /\ UNCHANGED <<side, gate_client, calc, core, tg_watcher, message_caches, slot, posObjs, records, sup, recon, usr, first_update_done,
                   tg_timing_cache, stop_bot_iteration, exOrders, exSize, liveTrig,
                   faultsLeft, resets, mainPlaced, trigPlaced, cancelReqs>>

\* --------------------------------------- initial_order_template steps
exec_request_truthy_always(r) == TRUE

\* Whether the value _exec_request returns passes `if not await ...`:
\* None (label, exception) and {} (empty answer) do not.
exec_request_truthy(r) == r = "ok"

\* Answer to set_leverage.  A label becomes entry_status; an answer that
\* is neither a label nor a list leaves the record untouched.
IotLeverage(s) ==
    /\ sig[s].pc = "iot_leverage"
    /\ \E r \in Responses :
        /\ Charge(r)
        /\ IF exec_request_truthy(r)
           THEN /\ sig' = [sig EXCEPT ![s].pc = "iot_margin"]
                /\ UNCHANGED <<records, anchor, signal_locks, sup>>
           ELSE IotFinally(s, sig[s], anchor,
                           IF r = "label"
                           THEN [records EXCEPT ![sig[s].rec].entry_status = ST_FAILED_LABEL]
                           ELSE records,
                           FALSE)
    /\ Disturb
    /\ UNCHANGED <<side, gate_client, calc, core, tg_watcher, message_caches, slot, posObjs, recon, usr, first_update_done, tg_timing_cache,
                   stop_bot_iteration, exOrders, exSize, liveTrig, resets, mainPlaced,
                   trigPlaced, cancelReqs>>

\* Answer to set_margin_mode, then contract_calc and the main-order request.
IotMargin(s) ==
    /\ sig[s].pc = "iot_margin"
    /\ \E r \in Responses :
        LET rid == sig[s].rec
            contracts == contract_calc(MarginSize, sig[s].msg.entry_price,
                                       records[rid].leverage, CtVal, LotSz, 100)
        IN  /\ Charge(r)
            /\ IF ~exec_request_truthy(r)
               THEN /\ IotFinally(s, sig[s], anchor,
                                  IF r = "label"
                                  THEN [records EXCEPT ![rid].entry_status = ST_FAILED_LABEL]
                                  ELSE records,
                                  FALSE)
                    /\ UNCHANGED <<posObjs, mainPlaced>>
               ELSE IF contracts = NULL
               THEN /\ IotFinally(s, sig[s], anchor,
                                  [records EXCEPT ![rid].entry_status = ST_FAILED_CONTRACTS],
                                  FALSE)
                    /\ UNCHANGED <<posObjs, mainPlaced>>
               ELSE /\ posObjs' = [posObjs EXCEPT ![sig[s].pos].contracts = contracts]
                    /\ sig' = [sig EXCEPT ![s].pc = "iot_main", ![s].contracts = contracts]
                    /\ mainPlaced' = mainPlaced \cup {s}
                    /\ UNCHANGED <<records, anchor, signal_locks, sup>>
    /\ Disturb
    /\ UNCHANGED <<side, gate_client, calc, core, tg_watcher, message_caches, slot, recon, usr, first_update_done, tg_timing_cache,
                   stop_bot_iteration, exOrders, exSize, liveTrig, resets, trigPlaced,
                   cancelReqs>>

\* A trigger-order answer as _place_trigger_order stores it.
TrigResult(r, id, price) ==
    [kind |-> r, id |-> IF r = "ok" THEN id ELSE NULL,
     price |-> IF r = "ok" THEN price ELSE NULL]
NoResult == [kind |-> "none", id |-> NULL, price |-> NULL]

\* _apply_trigger_result: <<pos_data, record>> after the results are applied.
RECURSIVE apply_tp_results(_, _, _, _)
apply_tp_results(pos_data, record, tp_results, i) ==
    IF i > Len(tp_results) THEN <<pos_data, record>>
    ELSE LET tp == tp_results[i]
             p1 == IF tp.kind = "label" THEN pos_data
                   ELSE IF i = 1 THEN [pos_data EXCEPT !.tp_order1_id = tp.id]
                   ELSE [pos_data EXCEPT !.tp_order2_id = tp.id]
             r1 == IF tp.kind = "label"
                   THEN IF i = 1 THEN [record EXCEPT !.tp1_status = ST_FAILED_LABEL]
                        ELSE [record EXCEPT !.tp2_status = ST_FAILED_LABEL]
                   ELSE IF i = 1 THEN [record EXCEPT !.tp1_status = ST_PENDING, !.tp1 = tp.price]
                        ELSE [record EXCEPT !.tp2_status = ST_PENDING, !.tp2 = tp.price]
         IN  apply_tp_results(p1, r1, tp_results, i + 1)

\* A faulty variant: a failed SL marks the take-profits as failed too.
apply_trigger_result_sl_spreads(pos_data, record, tp_results, sl_res) ==
    LET t == apply_tp_results(pos_data, record, tp_results, 1)
    IN  IF sl_res.kind \in {"none", "empty"} THEN t
        ELSE IF sl_res.kind = "label"
        THEN <<t[1], [t[2] EXCEPT !.sl_status = ST_FAILED_LABEL,
                                  !.tp1_status = ST_FAILED_LABEL,
                                  !.tp2_status = ST_FAILED_LABEL]>>
        ELSE <<[t[1] EXCEPT !.sl_order_id = sl_res.id],
               [t[2] EXCEPT !.sl_status = ST_PENDING, !.sl = sl_res.price]>>

apply_trigger_result(pos_data, record, tp_results, sl_res) ==
    LET t == apply_tp_results(pos_data, record, tp_results, 1)
    IN  IF sl_res.kind \in {"none", "empty"} THEN t
        ELSE IF sl_res.kind = "label"
        THEN <<t[1], [t[2] EXCEPT !.sl_status = ST_FAILED_LABEL]>>
        ELSE <<[t[1] EXCEPT !.sl_order_id = sl_res.id],
               [t[2] EXCEPT !.sl_status = ST_PENDING, !.sl = sl_res.price]>>

\* After the main order and the TP answers so far: send the next trigger
\* request, or apply the results and finish when none is left.
IotTriggers(s, task, objs, recs, sl_res) ==
    LET i == Len(task.tp_results) + 1
        sl_order == compose_sl_order(task.contracts, task.msg.stop_loss)
    IN  IF sl_res.kind = "none" /\ i <= Len(task.tp_orders)
        THEN /\ sig' = [sig EXCEPT ![s] = [task EXCEPT !.pc = "iot_tp"]]
             /\ posObjs' = objs
             /\ records' = recs
             /\ trigPlaced' = trigPlaced \cup {s}
             /\ UNCHANGED <<anchor, signal_locks, sup>>
        ELSE IF sl_res.kind = "none" /\ sl_order.trigger_px # NULL
        THEN /\ sig' = [sig EXCEPT ![s] = [task EXCEPT !.pc = "iot_sl"]]
             /\ posObjs' = objs
             /\ records' = recs
             /\ trigPlaced' = trigPlaced \cup {s}
             /\ UNCHANGED <<anchor, signal_locks, sup>>
        ELSE LET t == apply_trigger_result(objs[task.pos], recs[task.rec],
                                           task.tp_results, sl_res)
             IN  /\ posObjs' = [objs EXCEPT ![task.pos] = t[1]]
                 /\ IotFinally(s, task, anchor, [recs EXCEPT ![task.rec] = t[2]], TRUE)
                 /\ UNCHANGED trigPlaced

\* Answer to place_main_order.  An accepted market order fills at once,
\* an accepted limit order rests on the book.
IotMain(s) ==
    /\ sig[s].pc = "iot_main"
    /\ \E r \in Responses :
        LET rid == sig[s].rec
            task == [sig[s] EXCEPT !.tp_orders =
                                      compose_tp_orders(sig[s].contracts, sig[s].take_profits)]
        IN  /\ Charge(r)
            /\ IF r # "ok"
               THEN /\ IotFinally(s, sig[s], anchor,
                                  [records EXCEPT ![rid].entry_status =
                                      IF r = "label" THEN ST_FAILED_ERROR ELSE ST_FAILED_EMPTY],
                                  FALSE)
                    /\ UNCHANGED <<posObjs, exOrders, exSize, trigPlaced>>
               ELSE /\ IF sig[s].order_type = "market"
                       THEN exSize' = exSize + sig[s].contracts /\ UNCHANGED exOrders
                       ELSE exOrders' = exOrders \cup {s} /\ UNCHANGED exSize
                    /\ IotTriggers(s, task,
                                   [posObjs EXCEPT ![sig[s].pos].order_id = MainId(s),
                                                   ![sig[s].pos].c_time = C_TIME],
                                   [records EXCEPT ![rid].entry_status =
                                       IF sig[s].order_type = "market" THEN ST_FILLED
                                       ELSE ST_PENDING],
                                   NoResult)
    /\ Disturb
    /\ UNCHANGED <<side, gate_client, calc, core, tg_watcher, message_caches, slot, recon, usr, first_update_done, tg_timing_cache,
                   stop_bot_iteration, liveTrig, resets, mainPlaced, cancelReqs>>

\* Answer to a take-profit trigger request (and the 0.5 s pause after it).
IotTp(s) ==
    /\ sig[s].pc = "iot_tp"
    /\ \E r \in Responses :
        LET i == Len(sig[s].tp_results) + 1
            res == TrigResult(r, TpId(s, i), sig[s].tp_orders[i].trigger_px)
            task == [sig[s] EXCEPT !.tp_results = Append(@, res)]
        IN  /\ Charge(r)
            /\ liveTrig' = IF r = "ok" THEN liveTrig \cup {[id |-> res.id, kind |-> TpKind(i)]}
                           ELSE liveTrig
            /\ IotTriggers(s, task, posObjs, records, NoResult)
    /\ Disturb
    /\ UNCHANGED <<side, gate_client, calc, core, tg_watcher, message_caches, slot, recon, usr, first_update_done, tg_timing_cache,
                   stop_bot_iteration, exOrders, exSize, resets, mainPlaced, cancelReqs>>

\* Answer to the stop-loss trigger request.
IotSl(s) ==
    /\ sig[s].pc = "iot_sl"
    /\ \E r \in Responses :
        LET res == TrigResult(r, SlId(s), sig[s].msg.stop_loss)
        IN  /\ Charge(r)
            /\ liveTrig' = IF r = "ok" THEN liveTrig \cup {[id |-> res.id, kind |-> "sl"]}
                           ELSE liveTrig
            /\ IotTriggers(s, sig[s], posObjs, records, res)
    /\ Disturb
    /\ UNCHANGED <<side, gate_client, calc, core, tg_watcher, message_caches, slot, recon, usr, first_update_done, tg_timing_cache,
                   stop_bot_iteration, exOrders, exSize, resets, mainPlaced, cancelReqs>>

\* initial_order_template after the Telegram call of its finally block.
IotPushDone(s) ==
    /\ sig[s].pc = "iot_push"
    /\ anchor' = update_anchor_done(sig[s].rec, sig[s].push)
    /\ IotReturn(s, sig[s], sig[s].response)
    /\ Disturb
    /\ UNCHANGED <<side, gate_client, calc, core, tg_watcher, message_caches, slot, posObjs, records, recon, usr, first_update_done,
                   tg_timing_cache, stop_bot_iteration, exOrders, exSize, liveTrig,
                   faultsLeft, resets, mainPlaced, trigPlaced, cancelReqs>>

\* ------------------------------ complete_until_cancel (limit supervisor)
\* A faulty variant of the finally block: pending_open is left as it is.
sup_finally_pos_keep(pos_data) == pos_data

\* What the finally block does to the PositionState dict.
sup_finally_pos(pos_data) == [pos_data EXCEPT !.pending_open = FALSE]

\* The finally block up to the Telegram call.  When the book has no entry
\* for the slot, `current_anchor["last_data"] = record` raises and the
\* task ends there.
SupFinally(s, objs, recs) ==
    LET rid == sup[s].rec
        a1 == [anchor EXCEPT !.last_data = rid]
        u == update_anchor_sync(a1, rid, recs[rid], a1.message_id)
    IN  /\ posObjs' = [objs EXCEPT ![sup[s].pos] = sup_finally_pos(objs[sup[s].pos])]
        /\ records' = recs
        /\ IF ~anchor.exists
           THEN /\ sup' = [sup EXCEPT ![s].pc = "done", ![s].main_resp = "none",
                                      ![s].main_count = 0]
                /\ UNCHANGED anchor
           ELSE /\ anchor' = u.anchor
                /\ sup' = [sup EXCEPT ![s].pc = IF u.early THEN "done" ELSE "push",
                                      ![s].push = IF u.early THEN NoPush ELSE u.push,
                                      ![s].main_resp = "none", ![s].main_count = 0]

\* One turn of the polling loop, from the loop test on.  `expired` is the
\* outcome of (time.time() - start_time) >= timeout.
SupLoop(s, objs, expired) ==
    IF expired \/ stop_bot_iteration
    THEN \* TIME-OUT is written and the main-order cancel request is sent
         /\ posObjs' = objs
         /\ records' = [records EXCEPT ![sup[s].rec].entry_status = ST_TIMEOUT]
         /\ sup' = [sup EXCEPT ![s].pc = "cancel_main", ![s].timed_out = TRUE,
                               ![s].expired = expired, ![s].issued = {"main"}]
         /\ UNCHANGED anchor
    ELSE IF objs[sup[s].pos].in_position
    THEN SupFinally(s, objs, [records EXCEPT ![sup[s].rec].entry_status = ST_FILLED])
    ELSE /\ posObjs' = objs
         /\ sup' = [sup EXCEPT ![s].pc = "poll"]
         /\ UNCHANGED <<records, anchor>>

\* First run of the supervisor: pending_open is raised, then the first
\* turn of the loop (no time has passed yet).
SupStart(s) ==
    /\ sup[s].pc = "start"
    /\ SupLoop(s, [posObjs EXCEPT ![sup[s].pos].pending_open = TRUE], FALSE)
    /\ Disturb
    /\ UNCHANGED <<side, gate_client, calc, core, tg_watcher, message_caches, slot, sig, recon, usr, first_update_done, tg_timing_cache,
                   signal_locks, stop_bot_iteration, exOrders, exSize, liveTrig, faultsLeft,
                   resets, mainPlaced, trigPlaced, cancelReqs>>

\* Waking from sleep(0.1) to something new: the position is seen open, the
\* timeout expired, or the iteration is being stopped.
SupPoll(s) ==
    /\ sup[s].pc = "poll"
    /\ \E expired \in BOOLEAN :
          /\ expired \/ stop_bot_iteration \/ posObjs[sup[s].pos].in_position
          /\ SupLoop(s, posObjs, expired)
    /\ Disturb
    /\ UNCHANGED <<side, gate_client, calc, core, tg_watcher, message_caches, slot, sig, recon, usr, first_update_done, tg_timing_cache,
                   signal_locks, stop_bot_iteration, exOrders, exSize, liveTrig, faultsLeft,
                   resets, mainPlaced, trigPlaced, cancelReqs>>

\* cancel_all_orders_by_symbol_and_side: answer to the DELETE of the main
\* orders of the side; the DELETE of the trigger orders is sent next.
SupCancelMain(s) ==
    /\ sup[s].pc = "cancel_main"
    /\ \E r \in Responses :
        /\ Charge(r)
        /\ exOrders' = IF r = "ok" THEN {} ELSE exOrders
        /\ sup' = [sup EXCEPT ![s].pc = "cancel_trig", ![s].main_resp = r,
                              ![s].issued = @ \cup {"trigger"},
                              ![s].main_count = IF r = "ok" THEN Cardinality(exOrders) ELSE 0]
    /\ Disturb
    /\ UNCHANGED <<side, gate_client, calc, core, tg_watcher, message_caches, slot, posObjs, records, anchor, sig, recon, usr,
                   first_update_done, tg_timing_cache, signal_locks, stop_bot_iteration,
                   exSize, liveTrig, resets, mainPlaced, trigPlaced, cancelReqs>>

\* Answer to the DELETE of the trigger orders, the status bookkeeping of
\* complete_until_cancel and its finally block.  The trigger answer is
\* stored under "trigger_orders" and read back under "price_orders", so
\* only the main answer can report an error.
SupCancelTrig(s) ==
    /\ sup[s].pc = "cancel_trig"
    /\ \E r \in Responses :
        LET price_count == IF r = "ok" THEN Cardinality(liveTrig) ELSE 0
            rid == sup[s].rec
            recs == IF sup[s].main_resp = "label"
                    THEN [records EXCEPT ![rid].tp1_status = ST_FAILED_CANCEL,
                                         ![rid].tp2_status = ST_FAILED_CANCEL,
                                         ![rid].sl_status = ST_FAILED_CANCEL]
                    ELSE IF sup[s].main_count > 0 \/ price_count > 0
                    THEN [records EXCEPT ![rid].tp1_status = ST_CANCELLED,
                                         ![rid].tp2_status = ST_CANCELLED,
                                         ![rid].sl_status = ST_CANCELLED]
                    ELSE records
        IN  /\ Charge(r)
            /\ liveTrig' = IF r = "ok" THEN {} ELSE liveTrig
            /\ SupFinally(s, posObjs, recs)
    /\ Disturb
    /\ UNCHANGED <<side, gate_client, calc, core, tg_watcher, message_caches, slot, sig, recon, usr, first_update_done, tg_timing_cache,
                   signal_locks, stop_bot_iteration, exOrders, exSize, resets,
                   mainPlaced, trigPlaced, cancelReqs>>

\* After the Telegram call of the finally block.
SupPushDone(s) ==
    /\ sup[s].pc = "push"
    /\ anchor' = update_anchor_done(sup[s].rec, sup[s].push)
    /\ sup' = [sup EXCEPT ![s].pc = "done", ![s].push = NoPush]
    /\ Disturb
    /\ UNCHANGED <<side, gate_client, calc, core, tg_watcher, message_caches, slot, posObjs, records, sig, recon, usr, first_update_done,
                   tg_timing_cache, signal_locks, stop_bot_iteration, exOrders, exSize,
                   liveTrig, faultsLeft, resets, mainPlaced, trigPlaced, cancelReqs>>

\* ------------------------------------------- Synchronizer (reconciler)
\* The position the exchange reports for the slot, as unpack_position_info
\* returns it.
position_info(size) ==
    [entry_price |-> CurPrice, contracts |-> size, leverage |-> Leverage,
     notional_usd |-> size * CurPrice * CtVal,
     margin_vol |-> (size * CurPrice * CtVal) \div Leverage]

\* A faulty variant of the update: the slot is marked open but the entry
\* price is not stored.
active_position_update_drop_entry(pos_data, info) ==
    [pos_data EXCEPT !.contracts = safe_float(info.contracts, 0),
                     !.in_position = TRUE]

\* update_active_position's closing pos_data.update(...).
active_position_update(pos_data, info) ==
    [pos_data EXCEPT !.entry_price = safe_float(info.entry_price, 0),
                     !.contracts = safe_float(info.contracts, 0),
                     !.in_position = TRUE,
                     !.margin_vol = IF info.margin_vol # 0 THEN info.margin_vol ELSE @,
                     !.vol_usdt = info.notional_usd,
                     !.vol_assets = info.contracts * CtVal,
                     !.leverage = IF info.leverage # 0 THEN info.leverage ELSE @]

\* A faulty variant of the test: publish whenever a position is reported.
active_needs_publish_always(pos_data, entry_price) == entry_price # 0

\* update_active_position's test for the "position just filled" publish.
active_needs_publish(pos_data, entry_price) == ~pos_data.in_position /\ entry_price # 0

\* reset_if_needed's test for leaving the slot alone.
reset_needed(pos_data) == pos_data.in_position

\* A faulty variant of the reset: the new dict keeps the old trigger ids.
reset_pos_defaults_partial(objs) ==
    LET old == objs[Len(objs)]
    IN  <<Len(objs) + 1,
          Append(objs, [pos_vars_root_template EXCEPT !.tp_order1_id = old.tp_order1_id,
                                                      !.sl_order_id = old.sl_order_id])>>

\* set_pos_defaults(reset_flag=True): the slot gets a new template dict.
reset_pos_defaults(objs) == <<Len(objs) + 1, Append(objs, pos_vars_root_template)>>

\* A faulty variant of the end of a cycle: the exception leaves
\* refresh_positions_task.
cycle_end_raise(completed) ==
    IF completed THEN ReconIdle ELSE [ReconIdle EXCEPT !.pc = "crashed"]

\* Where refresh_positions_task stands once update_positions has returned:
\* `except Exception` in update_positions (and again in
\* refresh_positions_state) swallows the exception, so either way the task
\* is at `await asyncio.sleep(...)`, before the next test of its loop.
cycle_end(completed) == ReconIdle

\* End of an update_positions call; `completed` is false when an
\* exception cut it short.
RecEnd(completed, log) ==
    /\ recon' = cycle_end(completed)
    /\ first_update_done' = (first_update_done \/ completed)
    /\ reconLog' = [log EXCEPT !.raised = ~completed]

\* refresh_positions_task: one turn of its loop, from the loop test
\* through fetch_positions (a failed request yields []) to the first await
\* of update_positions.
RecFetch ==
    /\ recon.pc = "idle"
    /\ ~stop_bot_iteration
    /\ slot # 0
    /\ \E r \in Responses :
        LET present == r = "ok" /\ exSize > 0
            map == IF present THEN "present" ELSE "absent"
            log == [last |-> map, repeat |-> reconLog.last = map, pushes |-> 0,
                    raised |-> FALSE]
            logp == [log EXCEPT !.pushes = 1]
            pos_data == posObjs[slot]
            info == position_info(exSize)
            rid == anchor.last_data
            rec1 == [records[rid] EXCEPT !.entry_price = info.entry_price]
            u == update_anchor_sync(anchor, rid, rec1, anchor.message_id)
        IN  /\ Charge(r)
            /\ IF ~present
               THEN IF reset_needed(pos_data)
                    THEN /\ recon' = [recon EXCEPT !.pc = "pnl", !.pos = slot, !.attempt = 1]
                         /\ reconLog' = log
                         /\ UNCHANGED <<posObjs, records, anchor, first_update_done>>
                    ELSE /\ RecEnd(TRUE, log)
                         /\ UNCHANGED <<posObjs, records, anchor>>
               ELSE IF ~active_needs_publish(pos_data, info.entry_price)
               THEN /\ posObjs' = [posObjs EXCEPT ![slot] = active_position_update(pos_data, info)]
                    /\ RecEnd(TRUE, log)
                    /\ UNCHANGED <<records, anchor>>
               ELSE IF ~anchor.exists \/ rid = 0
               THEN \* current_anchor.get / record[...] raises
                    /\ RecEnd(FALSE, log)
                    /\ UNCHANGED <<posObjs, records, anchor>>
               ELSE /\ records' = [records EXCEPT ![rid] = rec1]
                    /\ anchor' = u.anchor
                    /\ IF u.early
                       THEN /\ posObjs' = [posObjs EXCEPT ![slot] =
                                              active_position_update(pos_data, info)]
                            /\ RecEnd(TRUE, logp)
                       ELSE /\ recon' = [recon EXCEPT !.pc = "active_push", !.pos = slot,
                                                      !.rec = rid, !.size = exSize,
                                                      !.push = u.push]
                            /\ reconLog' = logp
                            /\ UNCHANGED <<posObjs, first_update_done>>
    /\ UNCHANGED <<side, gate_client, calc, core, tg_watcher, message_caches, slot, sig, sup, usr, tg_timing_cache, signal_locks,
                   stop_bot_iteration, exOrders, exSize, liveTrig, resets, mainPlaced,
                   trigPlaced, cancelReqs>>

\* update_active_position after the Telegram call: the slot is marked open
\* with the figures fetched at the start of the call.
RecActivePushDone ==
    /\ recon.pc = "active_push"
    /\ anchor' = update_anchor_done(recon.rec, recon.push)
    /\ posObjs' = [posObjs EXCEPT ![recon.pos] =
                      active_position_update(posObjs[recon.pos], position_info(recon.size))]
    /\ RecEnd(TRUE, reconLog)
    /\ UNCHANGED <<side, gate_client, calc, core, tg_watcher, message_caches, slot, records, sig, sup, usr, tg_timing_cache, signal_locks,
                   stop_bot_iteration, exOrders, exSize, liveTrig, faultsLeft, resets,
                   mainPlaced, trigPlaced, cancelReqs>>

\* get_realized_pnl's `for attempt in range(1, max_retries + 1)`: a faulty
\* variant that keeps asking while the answer is not a list.
pnl_gives_up_never(attempt) == FALSE

\* get_realized_pnl's `for attempt in range(1, max_retries + 1)`: the loop
\* is left without rows once attempt max_retries has failed.
pnl_gives_up(attempt) == attempt >= max_retries

\* reset_if_needed: after sleep(0.5), one attempt of get_realized_pnl
\* inside pnl_report.  A list ends the loop and gives the PnL text; a
\* failed attempt is repeated until the loop gives up, and pnl_report then
\* returns None.  After the loop the DELETE of the main orders is sent.
RecPnl ==
    /\ recon.pc = "pnl"
    /\ \E r \in Responses :
        /\ Charge(r)
        /\ IF r = "ok"
           THEN recon' = [recon EXCEPT !.pc = "cancel_main", !.text_pnl = PNL_TEXT]
           ELSE IF pnl_gives_up(recon.attempt)
           THEN recon' = [recon EXCEPT !.pc = "cancel_main", !.text_pnl = ""]
           ELSE recon' = [recon EXCEPT !.attempt = @ + 1]
    /\ UNCHANGED <<side, gate_client, calc, core, tg_watcher, message_caches, slot, posObjs, records, anchor, sig, sup, usr, first_update_done,
                   tg_timing_cache, signal_locks, stop_bot_iteration, exOrders, exSize,
                   liveTrig, resets, mainPlaced, trigPlaced, cancelReqs, reconLog>>

\* reset_if_needed: answer to the DELETE of the main orders.
RecCancelMain ==
    /\ recon.pc = "cancel_main"
    /\ \E r \in Responses :
        /\ Charge(r)
        /\ exOrders' = IF r = "ok" THEN {} ELSE exOrders
    /\ recon' = [recon EXCEPT !.pc = "cancel_trig"]
    /\ UNCHANGED <<side, gate_client, calc, core, tg_watcher, message_caches, slot, posObjs, records, anchor, sig, sup, usr, first_update_done,
                   tg_timing_cache, signal_locks, stop_bot_iteration, exSize, liveTrig,
                   resets, mainPlaced, trigPlaced, cancelReqs, reconLog>>

\* The record as reset_position_vars leaves it.
reset_record(record, text_pnl) ==
    LET text == IF text_pnl = "" THEN PNL_UNKNOWN ELSE text_pnl
    IN  IF record.entry_status \notin {ST_CLOSED_MANUALLY, ST_FINISHED, ST_NONE}
        THEN [record EXCEPT !.entry_status = ST_FINISHED, !.tp1_status = ST_NONE,
                            !.tp2_status = ST_NONE, !.sl_status = ST_NONE,
                            !.pnl_text = text]
        ELSE [record EXCEPT !.pnl_text = text]

\* The tail of reset_position_vars: new slot dict, book entry removed.
RecReset(log) ==
    LET d == reset_pos_defaults(posObjs)
    IN  /\ slot' = d[1]
        /\ posObjs' = d[2]
        /\ anchor' = NoAnchor
        /\ resets' = resets + 1
        /\ RecEnd(TRUE, log)

\* reset_if_needed: answer to the DELETE of the trigger orders, then
\* reset_position_vars up to its Telegram call.
RecCancelTrig ==
    /\ recon.pc = "cancel_trig"
    /\ \E r \in Responses :
        LET rid == anchor.last_data
            rec1 == reset_record(records[rid], recon.text_pnl)
            u == update_anchor_sync(anchor, rid, rec1, anchor.message_id)
            logp == [reconLog EXCEPT !.pushes = @ + 1]
        IN  /\ Charge(r)
            /\ liveTrig' = IF r = "ok" THEN {} ELSE liveTrig
            /\ IF ~anchor.exists
               THEN \* current_anchor.get raises: the cycle ends, nothing is reset
                    /\ RecEnd(FALSE, reconLog)
                    /\ UNCHANGED <<slot, posObjs, records, anchor, resets>>
               ELSE IF rid = 0
               THEN /\ RecEnd(TRUE, reconLog)
                    /\ UNCHANGED <<slot, posObjs, records, anchor, resets>>
               ELSE /\ records' = [records EXCEPT ![rid] = rec1]
                    /\ IF u.early
                       THEN RecReset(logp)
                       ELSE /\ anchor' = u.anchor
                            /\ recon' = [recon EXCEPT !.pc = "reset_push", !.rec = rid,
                                                      !.push = u.push]
                            /\ reconLog' = logp
                            /\ UNCHANGED <<slot, posObjs, resets, first_update_done>>
    /\ UNCHANGED <<side, gate_client, calc, core, tg_watcher, message_caches, sig, sup, usr, tg_timing_cache, signal_locks,
                   stop_bot_iteration, exOrders, exSize, mainPlaced, trigPlaced, cancelReqs>>

\* reset_position_vars after the Telegram call.
RecResetPushDone ==
    /\ recon.pc = "reset_push"
    /\ RecReset(reconLog)
    /\ UNCHANGED <<side, gate_client, calc, core, tg_watcher, message_caches, records, sig, sup, usr, tg_timing_cache, signal_locks,
                   stop_bot_iteration, exOrders, exSize, liveTrig, faultsLeft, mainPlaced,
                   trigPlaced, cancelReqs>>

\* ----------------------------------------------------------- environment
\* The exchange fills a resting limit order.
ExFill(s) ==
    /\ s \in exOrders
    /\ exOrders' = exOrders \ {s}
    /\ exSize' = exSize + posObjs[sig[s].pos].contracts
    /\ Disturb
    /\ UNCHANGED <<side, gate_client, calc, core, tg_watcher, message_caches, slot, posObjs, records, anchor, sig, sup, recon, usr,
                   first_update_done, tg_timing_cache, signal_locks, stop_bot_iteration,
                   liveTrig, faultsLeft, resets, mainPlaced, trigPlaced, cancelReqs>>

\* The position is closed on the exchange (a trigger order fired, or a
\* liquidation).
ExClose ==
    /\ exSize > 0
    /\ resets < MaxResets
    /\ exSize' = 0
    /\ Disturb
    /\ UNCHANGED <<side, gate_client, calc, core, tg_watcher, message_caches, slot, posObjs, records, anchor, sig, sup, recon, usr,
                   first_update_done, tg_timing_cache, signal_locks, stop_bot_iteration,
                   exOrders, liveTrig, faultsLeft, resets, mainPlaced, trigPlaced, cancelReqs>>

\* The operator stops the trading iteration; the STOP button is refused
\* while a slot is in position.
StopIteration ==
    /\ ~stop_bot_iteration
    /\ IF slot = 0 THEN TRUE ELSE ~posObjs[slot].in_position
    /\ stop_bot_iteration' = TRUE
    /\ Disturb
    /\ UNCHANGED <<side, gate_client, calc, core, tg_watcher, message_caches, slot, posObjs, records, anchor, sig, sup, recon, usr,
                   first_update_done, tg_timing_cache, signal_locks, exOrders, exSize,
                   liveTrig, faultsLeft, resets, mainPlaced, trigPlaced, cancelReqs>>

\* _shutdown_iteration, run by run_forever once _run_iteration has returned
\* on the stop flag: `self.context.position_vars = {}` drops every slot.
\* The step is taken here when no task is in flight (STOP pressed on a
\* bot at rest); the position on the exchange is not touched.
ShutdownIteration ==
    /\ stop_bot_iteration
    /\ \A t \in Signals : sig[t].pc \in {"idle", "done"} /\ sup[t].pc \in {"idle", "done"}
    /\ recon.pc = "idle"
    /\ usr.pc = "idle"
    /\ slot # 0
    /\ slot' = 0
    /\ Disturb
    /\ UNCHANGED <<side, gate_client, calc, core, tg_watcher, message_caches, posObjs, records, anchor, sig, sup, recon, usr,
                   first_update_done, tg_timing_cache, signal_locks, stop_bot_iteration,
                   exOrders, exSize, liveTrig, faultsLeft, resets, mainPlaced,
                   trigPlaced, cancelReqs>>

\* ------------------------------------------------ gateway (_request)
\* `while not self.stop_bot and not self.stop_bot_iteration:` reads the
\* attributes of the client, then the next attempt is sent; when the test
\* fails the function falls off its end and returns None.
request_loop(client) ==
    IF ~client.stop_bot_iteration
    THEN [client EXCEPT !.pc = "sending", !.attempt = @ + 1]
    ELSE [client EXCEPT !.pc = "returned", !.result = "None"]

\* A caller enters _request.
ReqCall ==
    /\ gate_client.pc \in {"idle", "returned"}
    /\ gate_client' = request_loop([gate_client EXCEPT !.attempt = 0, !.result = "none",
                                                       !.event = "none"])
    /\ UNCHANGED <<calc, core, tg_watcher, message_caches, side, slot, posObjs, records, anchor, sig, sup, recon, usr,
                   first_update_done, tg_timing_cache, signal_locks, stop_bot_iteration,
                   exOrders, exSize, liveTrig, faultsLeft, resets, mainPlaced, trigPlaced,
                   cancelReqs, reconLog>>

\* What _request returns for an attempt that ends in a `return`: the parsed
\* body whatever the HTTP status ("json" for a 2xx answer, "label" for the
\* error body of a status >= 400), {} for a body that is not JSON and for
\* asyncio.CancelledError.
request_returns(event) ==
    CASE event = "http_2xx" -> "json"
      [] event = "http_error" -> "label"
      [] OTHER -> "empty"

\* The attempt ends in a `return`.
ReqAnswer ==
    /\ gate_client.pc = "sending"
    /\ \E e \in {"http_2xx", "http_error", "http_not_json", "cancelled"} :
        gate_client' = [gate_client EXCEPT !.pc = "returned", !.event = e,
                                           !.result = request_returns(e)]
    /\ UNCHANGED <<calc, core, tg_watcher, message_caches, side, slot, posObjs, records, anchor, sig, sup, recon, usr,
                   first_update_done, tg_timing_cache, signal_locks, stop_bot_iteration,
                   exOrders, exSize, liveTrig, faultsLeft, resets, mainPlaced, trigPlaced,
                   cancelReqs, reconLog>>

\* The attempt ends in one of the two branches that sleep(1): `except
\* (aiohttp.ClientError, asyncio.TimeoutError)` for a transport error or a
\* timeout, `except Exception` for anything else the try block raises,
\* which after the response has arrived is `await resp.text()` failing to
\* decode the body.
ReqError ==
    /\ gate_client.pc = "sending"
    /\ gate_client.attempt <= MaxAttempts
    /\ \E e \in {"transport", "http_undecodable"} :
        gate_client' = [gate_client EXCEPT !.pc = "sleeping", !.event = e]
    /\ UNCHANGED <<calc, core, tg_watcher, message_caches, side, slot, posObjs, records, anchor, sig, sup, recon, usr,
                   first_update_done, tg_timing_cache, signal_locks, stop_bot_iteration,
                   exOrders, exSize, liveTrig, faultsLeft, resets, mainPlaced, trigPlaced,
                   cancelReqs, reconLog>>

\* After the sleep: the loop test, and the next attempt.
ReqRetry ==
    /\ gate_client.pc = "sleeping"
    /\ gate_client' = request_loop(gate_client)
    /\ UNCHANGED <<calc, core, tg_watcher, message_caches, side, slot, posObjs, records, anchor, sig, sup, recon, usr,
                   first_update_done, tg_timing_cache, signal_locks, stop_bot_iteration,
                   exOrders, exSize, liveTrig, faultsLeft, resets, mainPlaced, trigPlaced,
                   cancelReqs, reconLog>>

\* ---------------------------------------------------------- specification
Init ==
    /\ side \in Sides
    /\ slot = 0
    /\ posObjs = <<>>
    /\ records = <<>>
    /\ anchor = NoAnchor
    /\ sig = [s \in Signals |-> SigIdle]
    /\ sup = [s \in Signals |-> SupIdle]
    /\ recon = ReconIdle
    /\ usr = UsrIdle
    /\ first_update_done = FALSE
    /\ tg_timing_cache = {}
    /\ signal_locks = {}
    /\ stop_bot_iteration = FALSE
    /\ exOrders = {}
    /\ exSize = 0
    /\ liveTrig = {}
    /\ faultsLeft = MaxFaults
    /\ resets = 0
    /\ mainPlaced = {}
    /\ trigPlaced = {}
    /\ cancelReqs = {}
    /\ reconLog = ReconLogInit
    /\ gate_client = GateFuturesClient(FALSE)
    /\ calc = NoCall
    /\ core = CoreRunning
    /\ tg_watcher = TgBotWatcherAiogram
    /\ message_caches = <<<<>>>>

SignalStep(s) ==
    \/ HsEnter(s) \/ HsWake(s) \/ HsPrices(s) \/ CstPushDone(s)
    \/ IotLeverage(s) \/ IotMargin(s) \/ IotMain(s) \/ IotTp(s) \/ IotSl(s)
    \/ IotPushDone(s)

SupervisorStep(s) ==
    \/ SupStart(s) \/ SupPoll(s) \/ SupCancelMain(s) \/ SupCancelTrig(s) \/ SupPushDone(s)

ReconcilerStep ==
    \/ RecFetch \/ RecActivePushDone \/ RecPnl \/ RecCancelMain
    \/ RecCancelTrig \/ RecResetPushDone

\* No signal task and no supervisor is in flight.
Quiescent ==
    \A t \in Signals : sig[t].pc \in {"idle", "done"} /\ sup[t].pc \in {"idle", "done"}

\* Signals that arrive one after the other: a message is posted (and then
\* dispatched) once the previous signal has been dealt with.
DispatchNext(s) == Quiescent /\ Dispatch(s)

Next ==
    \/ \E s \in Signals : DispatchNext(s)
    \/ \E s \in Signals : SignalStep(s)
    \/ \E s \in Signals : SupervisorStep(s)
    \/ ReconcilerStep
    \/ \E s \in Signals : ExFill(s)
    \/ ExClose
    \/ StopIteration

\* Signals one at a time, an unreliable network (up to MaxFaults failed
\* answers), either side.
Spec == Init /\ [][Next]_vars

\* Signals that may arrive at any time, a reliable network, the LONG side.
InitRace ==
    /\ side = "LONG"
    /\ slot = 0
    /\ posObjs = <<>>
    /\ records = <<>>
    /\ anchor = NoAnchor
    /\ sig = [s \in Signals |-> SigIdle]
    /\ sup = [s \in Signals |-> SupIdle]
    /\ recon = ReconIdle
    /\ usr = UsrIdle
    /\ first_update_done = FALSE
    /\ tg_timing_cache = {}
    /\ signal_locks = {}
    /\ stop_bot_iteration = FALSE
    /\ exOrders = {}
    /\ exSize = 0
    /\ liveTrig = {}
    /\ faultsLeft = 0
    /\ resets = 0
    /\ mainPlaced = {}
    /\ trigPlaced = {}
    /\ cancelReqs = {}
    /\ reconLog = ReconLogInit
    /\ gate_client = GateFuturesClient(FALSE)
    /\ calc = NoCall
    /\ core = CoreRunning
    /\ tg_watcher = TgBotWatcherAiogram
    /\ message_caches = <<<<>>>>

NextRace ==
    \/ \E s \in Signals : Dispatch(s)
    \/ \E s \in Signals : SignalStep(s)
    \/ \E s \in Signals : SupervisorStep(s)
    \/ ReconcilerStep
    \/ \E s \in Signals : ExFill(s)
    \/ ExClose

SpecRace == InitRace /\ [][NextRace]_vars

\* ------------------------------------- risk manager (modify, force close)
KindIndex(op) == IF op = "tp1" THEN 1 ELSE IF op = "tp2" THEN 2 ELSE 3

\* Ids of the orders a user request places: the id the exchange assigns,
\* and the placeholder "virtual_..." the bot makes up when an accepted
\* answer carries no id.
NewTrigId(n, op) == 50 + 10 * n + KindIndex(op)
VirtualId(n, op) == VirtualBase + 10 * n + KindIndex(op)
is_virtual(id) == id >= VirtualBase

\* The id modify_risk_orders reads as the previous one.
old_trigger_id(pos_data, op) ==
    IF op = "tp1" THEN pos_data.tp_order1_id
    ELSE IF op = "tp2" THEN pos_data.tp_order2_id
    ELSE pos_data.sl_order_id

\* A faulty variant of the test: placeholder ids are cancelled too.
cancels_old_any(old_id, new_id) == old_id # NULL /\ old_id # new_id

\* modify_risk_orders' test for cancelling the previous trigger order.
cancels_old(old_id, new_id) ==
    old_id # NULL /\ old_id # new_id /\ ~is_virtual(old_id)

\* Whether modify_risk_orders takes the answer to the new trigger order as
\* an acceptance: no label; for the stop-loss the answer must also be a
\* non-empty dict.
modify_accepts(op, r) ==
    IF op = "sl" THEN r \in {"ok", "noid"} ELSE r \in {"ok", "noid", "empty"}

\* The record and the PositionState after an accepted modify.
modify_record(record, op, px) ==
    IF op = "tp1" THEN [record EXCEPT !.tp1_status = ST_MODIFIED, !.tp1 = px]
    ELSE IF op = "tp2" THEN [record EXCEPT !.tp2_status = ST_MODIFIED, !.tp2 = px]
    ELSE [record EXCEPT !.sl_status = ST_MODIFIED, !.sl = px]

modify_failed(record, op, r) ==
    LET st == IF r = "label" THEN ST_FAILED_LABEL ELSE ST_FAILED_SL_ORDER
    IN  IF op = "tp1" THEN [record EXCEPT !.tp1_status = st]
        ELSE IF op = "tp2" THEN [record EXCEPT !.tp2_status = st]
        ELSE [record EXCEPT !.sl_status = st]

modify_pos(pos_data, op, new_id) ==
    IF op = "tp1" THEN [pos_data EXCEPT !.tp_order1_id = new_id]
    ELSE IF op = "tp2" THEN [pos_data EXCEPT !.tp_order2_id = new_id]
    ELSE [pos_data EXCEPT !.sl_order_id = new_id]

\* The price the user types for the new trigger.
NewPrice(op) ==
    LET sign == IF side = "LONG" THEN 1 ELSE -1
    IN  IF op = "sl" THEN CurPrice - sign * 150 ELSE CurPrice + sign * 150

\* Answers to a trigger-order request of a modify: those of Responses and,
\* as one more fault, an accepted answer that carries no id.
TrigResponses == Responses \cup (IF faultsLeft > 0 THEN {"noid"} ELSE {})

\* The finally block of modify_risk_orders / force_position_close up to
\* the Telegram call.
UsrFinally(task, anc, recs) ==
    LET rid == task.rec
        a1 == anchor_write(anc, anc.held, rid)
        u == update_anchor_sync(a1, rid, recs[rid], task.anc_msg)
    IN  /\ records' = recs
        /\ anchor' = u.anchor
        /\ usr' = IF u.early THEN [task EXCEPT !.pc = "notify"]
                  ELSE [task EXCEPT !.pc = "push", !.push = u.push]

\* _on_message for a TP1 / TP2 / SL input, and modify_risk_orders up to
\* the request that places the new trigger order.
ModStart(op) ==
    /\ usr.pc = "idle"
    /\ usr.n < MaxUserOps
    /\ slot # 0
    /\ posObjs[slot].in_position
    /\ anchor.exists
    /\ anchor.last_data # 0
    /\ LET task == [UsrIdle EXCEPT !.op = op, !.n = usr.n + 1, !.pos = slot,
                                   !.rec = anchor.last_data, !.anc_msg = anchor.message_id,
                                   !.old_id = old_trigger_id(posObjs[slot], op)]
       IN  IF posObjs[slot].contracts = NULL \/ posObjs[slot].contracts = 0
           THEN UsrFinally(task, [anchor EXCEPT !.held = TRUE], records)
           ELSE /\ usr' = [task EXCEPT !.pc = "mod_place", !.result = TRUE]
                /\ anchor' = [anchor EXCEPT !.held = TRUE]
                /\ UNCHANGED records
    /\ Disturb
    /\ UNCHANGED <<side, gate_client, calc, core, tg_watcher, message_caches, slot, posObjs, sig, sup, recon, first_update_done,
                   tg_timing_cache, signal_locks, stop_bot_iteration, exOrders, exSize,
                   liveTrig, faultsLeft, resets, mainPlaced, trigPlaced, cancelReqs>>

\* Answer to the request that places the new trigger order.
ModPlace ==
    /\ usr.pc = "mod_place"
    /\ \E r \in TrigResponses :
        LET op == usr.op
            new_id == IF r = "ok" THEN NewTrigId(usr.n, op) ELSE VirtualId(usr.n, op)
            task == [usr EXCEPT !.new_id = new_id, !.resp = r]
            recs == [records EXCEPT ![usr.rec] = modify_record(@, op, NewPrice(op))]
        IN  /\ Charge(r)
            /\ liveTrig' = IF r \in {"ok", "noid"}
                           THEN liveTrig \cup {[id |-> NewTrigId(usr.n, op), kind |-> op]}
                           ELSE liveTrig
            /\ IF ~modify_accepts(op, r)
               THEN /\ UsrFinally([usr EXCEPT !.resp = r], anchor,
                                    [records EXCEPT ![usr.rec] = modify_failed(@, op, r)])
                    /\ UNCHANGED <<posObjs, cancelReqs>>
               ELSE /\ posObjs' = [posObjs EXCEPT ![usr.pos] = modify_pos(@, op, new_id)]
                    /\ IF cancels_old(usr.old_id, new_id)
                       THEN /\ usr' = [task EXCEPT !.pc = "mod_cancel"]
                            /\ records' = recs
                            /\ cancelReqs' = cancelReqs \cup {usr.old_id}
                            /\ UNCHANGED anchor
                       ELSE /\ UsrFinally(task, anchor, recs)
                            /\ UNCHANGED cancelReqs
    /\ Disturb
    /\ UNCHANGED <<side, gate_client, calc, core, tg_watcher, message_caches, slot, sig, sup, recon, first_update_done, tg_timing_cache,
                   signal_locks, stop_bot_iteration, exOrders, exSize, resets,
                   mainPlaced, trigPlaced>>

\* A faulty variant: the failure of the cancel is written over the status.
mod_cancel_record_overwrite(record, op, r) ==
    IF r = "ok" THEN record ELSE modify_failed(record, op, "label")

\* The record after `_exec_request(.., cancel_order_by_id(..), record=record,
\* status_key=.., overwrite=False)`.  cancel_order_by_id returns {} for an
\* answer with a label and for an empty one, and raises on None; a label
\* or an exception makes _exec_request write the failure only `if
\* overwrite or not record.get(status_key)`.
mod_cancel_record(record, op, r) ==
    LET resp == IF r = "ok" THEN "ok" ELSE "empty"
        status == IF op = "tp1" THEN record.tp1_status
                  ELSE IF op = "tp2" THEN record.tp2_status ELSE record.sl_status
        overwrite == FALSE
    IN  IF resp \in {"label", "exception"} /\ (overwrite \/ status \in {NULL, ""})
        THEN modify_failed(record, op, "label")
        ELSE record

\* Answer to cancel_order_by_id for the previous trigger order.
ModCancel ==
    /\ usr.pc = "mod_cancel"
    /\ \E r \in Responses :
        /\ Charge(r)
        /\ liveTrig' = IF r = "ok" THEN {o \in liveTrig : o.id # usr.old_id} ELSE liveTrig
        /\ UsrFinally(usr, anchor,
                      [records EXCEPT ![usr.rec] = mod_cancel_record(@, usr.op, r)])
    /\ Disturb
    /\ UNCHANGED <<side, gate_client, calc, core, tg_watcher, message_caches, slot, posObjs, sig, sup, recon, first_update_done,
                   tg_timing_cache, signal_locks, stop_bot_iteration, exOrders, exSize,
                   resets, mainPlaced, trigPlaced, cancelReqs>>

\* After the Telegram call of the finally block.
UsrPushDone ==
    /\ usr.pc = "push"
    /\ anchor' = update_anchor_done(usr.rec, usr.push)
    /\ usr' = [usr EXCEPT !.pc = "notify", !.push = NoPush]
    /\ Disturb
    /\ UNCHANGED <<side, gate_client, calc, core, tg_watcher, message_caches, slot, posObjs, records, sig, sup, recon, first_update_done,
                   tg_timing_cache, signal_locks, stop_bot_iteration, exOrders, exSize,
                   liveTrig, faultsLeft, resets, mainPlaced, trigPlaced, cancelReqs>>

\* After the confirmation message to the chat.  _on_message then calls
\* update_anchor_state once more; handle_callback is finished.
UsrNotify ==
    /\ usr.pc = "notify"
    /\ LET u == update_anchor_sync(anchor, usr.rec, records[usr.rec], usr.anc_msg)
       IN  IF usr.op = "close" \/ ~usr.result
           THEN /\ usr' = [UsrIdle EXCEPT !.n = usr.n]
                /\ UNCHANGED anchor
           ELSE /\ anchor' = u.anchor
                /\ usr' = IF u.early THEN [UsrIdle EXCEPT !.n = usr.n]
                          ELSE [usr EXCEPT !.pc = "push2", !.push = u.push]
    /\ Disturb
    /\ UNCHANGED <<side, gate_client, calc, core, tg_watcher, message_caches, slot, posObjs, records, sig, sup, recon, first_update_done,
                   tg_timing_cache, signal_locks, stop_bot_iteration, exOrders, exSize,
                   liveTrig, faultsLeft, resets, mainPlaced, trigPlaced, cancelReqs>>

UsrPush2Done ==
    /\ usr.pc = "push2"
    /\ anchor' = update_anchor_done(usr.rec, usr.push)
    /\ usr' = [UsrIdle EXCEPT !.n = usr.n]
    /\ Disturb
    /\ UNCHANGED <<side, gate_client, calc, core, tg_watcher, message_caches, slot, posObjs, records, sig, sup, recon, first_update_done,
                   tg_timing_cache, signal_locks, stop_bot_iteration, exOrders, exSize,
                   liveTrig, faultsLeft, resets, mainPlaced, trigPlaced, cancelReqs>>

\* The record as force_position_close leaves it, and its return value.
\* close_info is "id" for an answer that carries an order id, "error"
\* for place_main_order's error dict.
close_succeeds(close_type, close_info) == close_info = "id" \/ close_type = "limit"

close_record(record, close_type, close_info) ==
    IF close_succeeds(close_type, close_info)
    THEN [record EXCEPT !.entry_status = ST_CLOSED_MANUALLY, !.tp1_status = ST_NONE,
                        !.tp2_status = ST_NONE, !.sl_status = ST_NONE]
    ELSE [record EXCEPT !.entry_status = ST_FAILED_UNKNOWN_RESPONSE]

\* force_position_close from the answer of the closing request to the
\* Telegram call of its finally block.
FcReturn(task, close_info) ==
    LET t1 == [task EXCEPT !.close_info = close_info,
                           !.result = close_succeeds(task.close_type, close_info)]
    IN  UsrFinally(t1, anchor,
                   [records EXCEPT ![task.rec] = close_record(@, task.close_type, close_info)])

\* handle_callback for "close_confirm:...:yes", and force_position_close
\* up to its first request: the order book for a limit close, the
\* reduce-only market order otherwise.
FcStart(close_type) ==
    /\ usr.pc = "idle"
    /\ usr.n < MaxUserOps
    /\ slot # 0
    /\ posObjs[slot].in_position
    /\ anchor.exists
    /\ anchor.last_data # 0
    /\ LET task == [UsrIdle EXCEPT !.op = "close", !.n = usr.n + 1, !.pos = slot,
                                   !.rec = anchor.last_data, !.anc_msg = anchor.message_id,
                                   !.close_type = close_type]
       IN  IF posObjs[slot].contracts = NULL \/ posObjs[slot].contracts = 0
           THEN UsrFinally(task, [anchor EXCEPT !.held = TRUE],
                           [records EXCEPT ![task.rec].entry_status = ST_FAILED_NO_CONTRACTS])
           ELSE /\ usr' = [task EXCEPT !.pc = IF close_type = "limit" THEN "fc_book"
                                              ELSE "fc_market"]
                /\ anchor' = [anchor EXCEPT !.held = TRUE]
                /\ UNCHANGED records
    /\ Disturb
    /\ UNCHANGED <<side, gate_client, calc, core, tg_watcher, message_caches, slot, posObjs, sig, sup, recon, first_update_done,
                   tg_timing_cache, signal_locks, stop_bot_iteration, exOrders, exSize,
                   liveTrig, faultsLeft, resets, mainPlaced, trigPlaced, cancelReqs>>

\* close_by_bid_ask: answer to get_order_book; without a book the market
\* order is sent, with one the limit order at the best price.
FcBook ==
    /\ usr.pc = "fc_book"
    /\ \E r \in Responses :
        /\ Charge(r)
        /\ usr' = [usr EXCEPT !.pc = IF r = "ok" THEN "fc_limit" ELSE "fc_market"]
    /\ Disturb
    /\ UNCHANGED <<side, gate_client, calc, core, tg_watcher, message_caches, slot, posObjs, records, anchor, sig, sup, recon,
                   first_update_done, tg_timing_cache, signal_locks, stop_bot_iteration,
                   exOrders, exSize, liveTrig, resets, mainPlaced, trigPlaced, cancelReqs>>

\* close_by_bid_ask: answer to the limit order.  place_main_order turns a
\* failure into an error dict without a label, so the status of order
\* "None" is asked for next.
FcLimit ==
    /\ usr.pc = "fc_limit"
    /\ \E r \in IF exSize > 0 THEN Responses ELSE {"label"} :
        /\ faultsLeft' = IF exSize > 0 THEN faultsLeft - (IF r = "ok" THEN 0 ELSE 1)
                         ELSE faultsLeft
        /\ usr' = [usr EXCEPT !.pc = "fc_status", !.limit_live = (r = "ok"),
                              !.accepted = (r = "ok")]
    /\ Disturb
    /\ UNCHANGED <<side, gate_client, calc, core, tg_watcher, message_caches, slot, posObjs, records, anchor, sig, sup, recon,
                   first_update_done, tg_timing_cache, signal_locks, stop_bot_iteration,
                   exOrders, exSize, liveTrig, resets, mainPlaced, trigPlaced, cancelReqs>>

\* close_by_bid_ask: after sleep(2), answer to get_order.  The resting
\* order may have been filled meanwhile; `seen` tells whether the status
\* string of the answer is one of those the code takes for a fill.
FcStatus ==
    /\ usr.pc = "fc_status"
    /\ \E r \in Responses, fill \in BOOLEAN, seen \in BOOLEAN :
        /\ fill => usr.limit_live /\ exSize > 0
        /\ seen => fill /\ r = "ok"
        /\ Charge(r)
        /\ exSize' = IF fill THEN 0 ELSE exSize
        /\ IF seen
           THEN FcReturn([usr EXCEPT !.limit_live = FALSE], "id")
           ELSE /\ usr' = [usr EXCEPT !.pc = "fc_cancel", !.limit_live = @ /\ ~fill]
                /\ UNCHANGED <<records, anchor>>
    /\ Disturb
    /\ UNCHANGED <<side, gate_client, calc, core, tg_watcher, message_caches, slot, posObjs, sig, sup, recon, first_update_done,
                   tg_timing_cache, signal_locks, stop_bot_iteration, exOrders, liveTrig,
                   resets, mainPlaced, trigPlaced, cancelReqs>>

\* close_by_bid_ask: answer to cancel_order_by_id, which addresses the
\* trigger-order endpoint; the market order is sent next.
FcCancel ==
    /\ usr.pc = "fc_cancel"
    /\ \E r \in Responses :
        /\ Charge(r)
        /\ usr' = [usr EXCEPT !.pc = "fc_market"]
    /\ Disturb
    /\ UNCHANGED <<side, gate_client, calc, core, tg_watcher, message_caches, slot, posObjs, records, anchor, sig, sup, recon,
                   first_update_done, tg_timing_cache, signal_locks, stop_bot_iteration,
                   exOrders, exSize, liveTrig, resets, mainPlaced, trigPlaced, cancelReqs>>

\* Answer to the reduce-only market order; the exchange rejects it when
\* there is no position left to reduce.
FcMarket ==
    /\ usr.pc = "fc_market"
    /\ \E r \in IF exSize > 0 THEN Responses ELSE {"label"} :
        /\ faultsLeft' = IF exSize > 0 THEN faultsLeft - (IF r = "ok" THEN 0 ELSE 1)
                         ELSE faultsLeft
        /\ exSize' = IF r = "ok" THEN 0 ELSE exSize
        /\ FcReturn([usr EXCEPT !.accepted = @ \/ r = "ok"],
                    IF r = "ok" THEN "id" ELSE "error")
    /\ Disturb
    /\ UNCHANGED <<side, gate_client, calc, core, tg_watcher, message_caches, slot, posObjs, sig, sup, recon, first_update_done,
                   tg_timing_cache, signal_locks, stop_bot_iteration, exOrders, liveTrig,
                   resets, mainPlaced, trigPlaced, cancelReqs>>

\* The chat user acts on a position once its signal has been dealt with.
UserStep ==
    \/ \E op \in {"tp1", "tp2", "sl"} : Quiescent /\ ModStart(op)
    \/ ModPlace \/ ModCancel
    \/ \E ct \in {"limit", "market"} : Quiescent /\ FcStart(ct)
    \/ FcBook \/ FcLimit \/ FcStatus \/ FcCancel \/ FcMarket
    \/ UsrPushDone \/ UsrNotify \/ UsrPush2Done

\* One signal and the requests of the chat user about the position it
\* opens, an unreliable network (up to MaxFaults failed answers).
NextRisk ==
    \/ DispatchNext(1)
    \/ SignalStep(1)
    \/ SupervisorStep(1)
    \/ ReconcilerStep
    \/ ExFill(1)
    \/ ExClose
    \/ UserStep
    \/ StopIteration
    \/ ShutdownIteration

SpecRisk == Init /\ [][NextRisk]_vars

\* One signal and the reconciler on a network that fails up to
\* MaxResetFaults times: enough for every attempt of the PnL query and both
\* bulk cancels of a reset to fail.
InitReset ==
    /\ side = "LONG"
    /\ slot = 0
    /\ posObjs = <<>>
    /\ records = <<>>
    /\ anchor = NoAnchor
    /\ sig = [s \in Signals |-> SigIdle]
    /\ sup = [s \in Signals |-> SupIdle]
    /\ recon = ReconIdle
    /\ usr = UsrIdle
    /\ first_update_done = FALSE
    /\ tg_timing_cache = {}
    /\ signal_locks = {}
    /\ stop_bot_iteration = FALSE
    /\ exOrders = {}
    /\ exSize = 0
    /\ liveTrig = {}
    /\ faultsLeft = MaxResetFaults
    /\ resets = 0
    /\ mainPlaced = {}
    /\ trigPlaced = {}
    /\ cancelReqs = {}
    /\ reconLog = ReconLogInit
    /\ gate_client = GateFuturesClient(FALSE)
    /\ calc = NoCall
    /\ core = CoreRunning
    /\ tg_watcher = TgBotWatcherAiogram
    /\ message_caches = <<<<>>>>

NextReset ==
    \/ DispatchNext(1)
    \/ SignalStep(1)
    \/ SupervisorStep(1)
    \/ ReconcilerStep
    \/ ExFill(1)
    \/ ExClose

SpecReset == InitReset /\ [][NextReset]_vars

\* A caller of the gateway whose requests meet up to MaxAttempts transport
\* errors in a row, the STOP button, and signals that arrive and wait for
\* the first reconciliation meanwhile.
NextGate ==
    \/ \E s \in Signals : Dispatch(s)
    \/ \E s \in Signals : HsEnter(s)
    \/ StopIteration
    \/ ReqCall
    \/ ReqAnswer
    \/ ReqError
    \/ ReqRetry

SpecGate == Init /\ [][NextGate]_vars

\* --------------------------------------------- run_forever, START / STOP
\* The variables the steps of run_forever, of the START / STOP commands
\* and of the channel watcher leave alone.
trading == <<side, posObjs, records, anchor, sig, sup, recon, usr, first_update_done,
             tg_timing_cache, signal_locks, exOrders, exSize, liveTrig, faultsLeft,
             resets, mainPlaced, trigPlaced, cancelReqs, reconLog, gate_client, calc>>

\* start_cmd: refused while start_bot_iteration is set or a slot is in
\* position; otherwise (the config being complete) the START is accepted:
\* start_bot_iteration = True, stop_bot_iteration = False.
StartCmd ==
    /\ ~core.start_bot_iteration
    /\ IF slot = 0 THEN TRUE ELSE ~posObjs[slot].in_position
    /\ core' = [core EXCEPT !.start_bot_iteration = TRUE,
                            !.served = core.pc \in {"starting", "running"}]
    /\ stop_bot_iteration' = FALSE
    /\ UNCHANGED <<trading, slot, tg_watcher, message_caches>>

\* stop_cmd: refused while a slot is in position; when the bot was started
\* start_bot_iteration = False, stop_bot_iteration = True.
StopCmd ==
    /\ core.start_bot_iteration
    /\ IF slot = 0 THEN TRUE ELSE ~posObjs[slot].in_position
    /\ core' = [core EXCEPT !.start_bot_iteration = FALSE, !.served = FALSE]
    /\ stop_bot_iteration' = TRUE
    /\ UNCHANGED <<trading, slot, tg_watcher, message_caches>>

\* run_forever wakes in `while not start_bot_iteration: sleep(0.3)` with
\* the flag set and enters _run_iteration, up to its first await
\* (_start_user_context, the wait for the session, get_instruments).
RfStart ==
    /\ core.pc = "waiting"
    /\ core.start_bot_iteration
    /\ core' = [core EXCEPT !.pc = "starting", !.served = TRUE]
    /\ UNCHANGED <<trading, slot, stop_bot_iteration, tg_watcher, message_caches>>

\* _run_iteration after its preparations.  Without a session it sets
\* stop_bot_iteration and returns.  Otherwise
\* `asyncio.create_task(self.sync.refresh_positions_task())` starts a
\* reconciler loop, whose handle is not kept, and the dispatch loop makes
\* its first test.  With stop_bot_iteration clear the dispatch loop
\* sleeps and the new loop passes its own first test; with the flag set
\* (a STOP during the preparations) _run_iteration returns, and the new
\* loop makes its first test while _shutdown_iteration waits for the
\* session to close, and ends.
RfRun ==
    /\ core.pc = "starting"
    /\ \E session_ok \in BOOLEAN :
        IF ~session_ok
        THEN /\ core' = [core EXCEPT !.pc = "shutdown"]
             /\ stop_bot_iteration' = TRUE
        ELSE /\ core.loops < MaxLoops
             /\ core' = IF stop_bot_iteration
                        THEN [core EXCEPT !.pc = "shutdown"]
                        ELSE [core EXCEPT !.pc = "running", !.loops = @ + 1]
             /\ UNCHANGED stop_bot_iteration
    /\ UNCHANGED <<trading, slot, tg_watcher, message_caches>>

\* The dispatch loop of _run_iteration wakes from sleep(MAIN_CYCLE_FREQUENCY)
\* and finds stop_bot_iteration set: _run_iteration returns and
\* _shutdown_iteration runs up to `await ... shutdown_session()`.
\* self.positions_task is None, so no reconciler loop is cancelled.
RfEnd ==
    /\ core.pc = "running"
    /\ stop_bot_iteration
    /\ core' = [core EXCEPT !.pc = "shutdown"]
    /\ UNCHANGED <<trading, slot, stop_bot_iteration, tg_watcher, message_caches>>

\* The rest of _shutdown_iteration (position_vars = {}) and the top of the
\* next turn of run_forever: `start_bot_iteration = False;
\* stop_bot_iteration = False`, then the wait for START.
RfShutdown ==
    /\ core.pc = "shutdown"
    /\ slot' = 0
    /\ core' = [core EXCEPT !.pc = "waiting", !.start_bot_iteration = FALSE,
                            !.served = FALSE]
    /\ stop_bot_iteration' = FALSE
    /\ UNCHANGED <<trading, tg_watcher, message_caches>>

\* refresh_positions_task: a live loop reaches `while not stop_bot and not
\* stop_bot_iteration` while the flag is set, and ends.
LoopEnd ==
    /\ core.loops > 0
    /\ stop_bot_iteration
    /\ core' = [core EXCEPT !.loops = @ - 1]
    /\ UNCHANGED <<trading, slot, stop_bot_iteration, tg_watcher, message_caches>>

\* ------------------------------------------------ channel watcher
\* channel_post_handler for a tagged post with timestamp ts that is not in
\* _seen_messages: <<watcher, heap>> afterwards.  The tuple is appended to
\* the list the watcher refers to; when that list is longer than max_cache
\* `self.message_cache = self.message_cache[-self.max_cache:]` binds the
\* attribute to a new list and _seen_messages is cleared.  A list nothing
\* refers to any more is dropped from the heap.
watcher_accept(w, heap, ts) ==
    LET ref == w.message_cache
        appended == Append(heap[ref], ts)
        heap1 == [heap EXCEPT ![ref] = appended]
        n == Len(appended)
    IN  IF n > max_cache
        THEN <<[w EXCEPT !.message_cache = 2, !.seen = {}],
               <<heap1[1], SubSeq(appended, n - max_cache + 1, n)>>>>
        ELSE <<[w EXCEPT !.seen = @ \cup {ts}], heap1>>

\* A tagged channel post arrives; its timestamp is that of the previous
\* post or a later one.
ChannelPost ==
    /\ tg_watcher.posts < MaxPosts
    /\ \E ts \in {tg_watcher.last, tg_watcher.last + 1} \ {0} :
        LET w == [tg_watcher EXCEPT !.posts = @ + 1, !.last = ts]
            a == watcher_accept(w, message_caches, ts)
        IN  IF ts \in tg_watcher.seen
            THEN /\ tg_watcher' = w
                 /\ UNCHANGED message_caches
            ELSE /\ tg_watcher' = a[1]
                 /\ message_caches' = a[2]
    /\ UNCHANGED <<trading, slot, stop_bot_iteration, core>>

\* The bot after construction: run_forever waits for START, no trading
\* iteration has run, the watcher listens.
InitLife ==
    /\ side = "LONG"
    /\ slot = 0
    /\ posObjs = <<>>
    /\ records = <<>>
    /\ anchor = NoAnchor
    /\ sig = [s \in Signals |-> SigIdle]
    /\ sup = [s \in Signals |-> SupIdle]
    /\ recon = ReconIdle
    /\ usr = UsrIdle
    /\ first_update_done = FALSE
    /\ tg_timing_cache = {}
    /\ signal_locks = {}
    /\ stop_bot_iteration = FALSE
    /\ exOrders = {}
    /\ exSize = 0
    /\ liveTrig = {}
    /\ faultsLeft = MaxFaults
    /\ resets = 0
    /\ mainPlaced = {}
    /\ trigPlaced = {}
    /\ cancelReqs = {}
    /\ reconLog = ReconLogInit
    /\ gate_client = GateFuturesClient(FALSE)
    /\ calc = NoCall
    /\ core = [CoreRunning EXCEPT !.pc = "waiting", !.start_bot_iteration = FALSE,
                                  !.served = FALSE, !.loops = 0]
    /\ tg_watcher = TgBotWatcherAiogram
    /\ message_caches = <<<<>>>>

\* The operator's START and STOP commands, run_forever with the
\* reconciler loops its iterations start, and the channel watcher.
NextLife ==
    \/ StartCmd
    \/ StopCmd
    \/ RfStart
    \/ RfRun
    \/ RfEnd
    \/ RfShutdown
    \/ LoopEnd
    \/ ChannelPost

SpecLife == InitLife /\ [][NextLife]_vars

\* -------------------------------------------- helper functions on their own
\* Take-profit prices of a signal around the entry price CurPrice; NULL is
\* a take-profit the signal does not carry.
TpPrices == {NULL, CurPrice - 200, CurPrice - 100, CurPrice - 1,
             CurPrice + 1, CurPrice + 100, CurPrice + 200}

\* fin_settings["dop_tp"]: None, or a percentage 1..100.
DopTpRange == 1..100

\* build_take_profits is called with the take-profits of a signal.
CallBuildTakeProfits ==
    /\ calc = NoCall
    /\ \E pos_side \in Sides, tp1 \in TpPrices, tp2 \in TpPrices,
          dop_tp \in {NULL} \cup DopTpRange :
          LET parsed_msg == [NoMsg EXCEPT !.take_profit1 = tp1, !.take_profit2 = tp2,
                                          !.take_profit = NULL]
          IN  calc' = [fn |-> "build_take_profits",
                       args |-> <<pos_side, tp1, tp2, dop_tp, CurPrice>>,
                       out |-> build_take_profits(parsed_msg, dop_tp, pos_side, CurPrice)]
    /\ UNCHANGED bot

\* Arguments of contract_calc: margins, prices, leverages, contract values
\* and lot sizes, with None and zero among them.
MarginSizes == {NULL, 0, 1, 7, MarginSize}
EntryPrices == {NULL, 0, 1, 3, 4, 40, CurPrice}
Leverages == {NULL, 0, 1, Leverage}
CtVals == {0, 1, 2}
LotSizes == {0, 1, 2, 5}

\* contract_calc is called as initial_order_template calls it, with
\* volume_rate 100.
CallContractCalc ==
    /\ calc = NoCall
    /\ \E margin_size \in MarginSizes, entry_price \in EntryPrices,
          leverage \in Leverages, ctVal \in CtVals, lotSz \in LotSizes :
          calc' = [fn |-> "contract_calc",
                   args |-> <<margin_size, entry_price, leverage, ctVal, lotSz>>,
                   out |-> contract_calc(margin_size, entry_price, leverage, ctVal,
                                         lotSz, 100)]
    /\ UNCHANGED bot

\* Arguments of validate_risk_order: prices at, next to and far from the
\* 0.05 % distance of CurPrice, None and zero.
RiskPrices == {NULL, 0, CurPrice - 1000, CurPrice - 6, CurPrice - 5, CurPrice - 4, CurPrice,
               CurPrice + 4, CurPrice + 5, CurPrice + 6, CurPrice + 1000}

\* validate_risk_order is called on a stop-loss and a take-profit.
CallValidateRiskOrder ==
    /\ calc = NoCall
    /\ \E pos_side \in Sides \cup {"none"}, cur_price \in {NULL, 0, CurPrice},
          sl \in RiskPrices, tp \in RiskPrices :
          calc' = [fn |-> "validate_risk_order",
                   args |-> <<pos_side, cur_price, sl, tp>>,
                   out |-> validate_risk_order(pos_side, cur_price, sl, tp)]
    /\ UNCHANGED bot

\* GateApiResponseValidator.  A JSON value is [t |-> its Python type,
\* v |-> its content]: a dict is a function from keys to values, a list a
\* sequence of values; {} and [] have the content <<>>.
normalize_response(resp) ==
    IF resp.t = "dict" THEN resp
    ELSE IF resp.t = "list" /\ resp.v # <<>> /\ resp.v[1].t = "dict" THEN resp.v[1]
    ELSE [t |-> "dict", v |-> <<>>]

\* get_data_list's `for key in (...)`: resp.get(key, []) is tested for
\* being a list, the default [] of a missing key included.
RECURSIVE data_list_keys(_, _)
data_list_keys(resp, keys) ==
    IF keys = <<>> THEN [t |-> "list", v |-> <<>>]
    ELSE LET data == IF Head(keys) \in DOMAIN resp.v THEN resp.v[Head(keys)]
                     ELSE [t |-> "list", v |-> <<>>]
         IN  IF data.t = "list" THEN data ELSE data_list_keys(resp, Tail(keys))

get_data_list(resp) ==
    IF resp.t = "list" THEN resp
    ELSE IF resp.t = "dict"
    THEN data_list_keys(resp, <<"orders", "positions", "price_orders", "data">>)
    ELSE [t |-> "list", v |-> <<>>]

\* Answers of the exchange: a single object, arrays of none to two objects,
\* an array of strings, a container with one list under one key (and
\* possibly a label beside it), a string and null.
JsonObjects == {[t |-> "dict", v |-> [id |-> i]] : i \in 1..2}
JsonArrays ==
    {[t |-> "list", v |-> <<>>]} \cup {[t |-> "list", v |-> <<a>>] : a \in JsonObjects}
               \cup {[t |-> "list", v |-> <<a, b>>] : a \in JsonObjects, b \in JsonObjects}
JsonKeys == {"orders", "positions", "price_orders", "data", "result"}
JsonResponses ==
    JsonObjects \cup JsonArrays
    \cup {[t |-> "list", v |-> <<[t |-> "str", v |-> "x"]>>],
           [t |-> "str", v |-> "x"], [t |-> "none", v |-> "null"]}
    \cup {[t |-> "dict", v |-> [k \in {key} |-> arr]] : key \in JsonKeys, arr \in JsonArrays}
    \cup {[t |-> "dict", v |-> [k \in {key, "orders"} |->
                                   IF k = key THEN arr ELSE [t |-> "str", v |-> "x"]]] :
              key \in JsonKeys \ {"orders"}, arr \in JsonArrays}

\* A caller reduces an answer with normalize_response or get_data_list.
CallResponseValidator ==
    /\ calc = NoCall
    /\ \E resp \in JsonResponses :
        \/ calc' = [fn |-> "normalize_response", args |-> <<resp>>,
                     out |-> normalize_response(resp)]
        \/ calc' = [fn |-> "get_data_list", args |-> <<resp>>,
                     out |-> get_data_list(resp)]
    /\ UNCHANGED bot

NextCalc ==
    \/ CallBuildTakeProfits
    \/ CallContractCalc
    \/ CallValidateRiskOrder
    \/ CallResponseValidator

\* The helper functions called with arguments of every kind, the bot at
\* rest.
SpecCalc == Init /\ [][NextCalc]_vars

\* ================================================================ claims
AfterMainRequest == {"iot_main", "iot_tp", "iot_sl", "iot_push"}

\* C1: of the signals in flight for the slot at most one has reached
\* place_main_order; the slot is never opened twice by concurrent signals.
C1_SingleOpener ==
    Cardinality({s \in Signals : sig[s].pc \in AfterMainRequest}) <= 1

\* C2: in_position and pending_open are never both true on the slot.
C2_FlagsExclusive ==
    slot # 0 => ~(posObjs[slot].in_position /\ posObjs[slot].pending_open)

\* C3: whenever the slot is in_position its entry_price is set and its
\* contracts are positive.
C3_InPositionHasEntry ==
    (slot # 0 /\ posObjs[slot].in_position) =>
        /\ posObjs[slot].entry_price # NULL
        /\ posObjs[slot].contracts # NULL
        /\ posObjs[slot].contracts > 0

C3_Witness ==
    /\ slot # 0
    /\ posObjs[slot].in_position
    /\ posObjs[slot].entry_price = CurPrice
    /\ mainPlaced # {}

\* The default template, field by field.
DefaultSlot ==
    [leverage |-> NULL, margin_vol |-> NULL, vol_usdt |-> NULL, vol_assets |-> NULL,
     contracts |-> NULL, entry_price |-> NULL, pending_open |-> FALSE,
     in_position |-> FALSE, order_id |-> NULL, tp_order1_id |-> NULL,
     tp_order2_id |-> NULL, sl_order_id |-> NULL, c_time |-> NULL,
     settings_tag |-> NULL]

\* C4: when the reconciler has seen an open position missing, the cycle
\* ends with the slot equal to the default template in every field (and
\* the book entry gone); no cycle ends with the slot partly reset.
C4_ResetComplete ==
    [][(recon.pc \in {"cancel_trig", "reset_push"} /\ recon'.pc = "idle") =>
          /\ posObjs'[slot'] = DefaultSlot
          /\ ~anchor'.exists
          /\ resets' = resets + 1]_vars

C4_Witness ==
    /\ resets > 0
    /\ posObjs[slot] = DefaultSlot
    /\ \E i \in 1..Len(posObjs) : posObjs[i].in_position

\* C5: an update_positions call that directly follows a call with the same
\* position map makes no notifier call.
C5_SecondRunSilent == reconLog.repeat => reconLog.pushes = 0

C5_Witness ==
    /\ reconLog.repeat
    /\ reconLog.last = "present"
    /\ posObjs[slot].in_position
    /\ recon.pc = "idle"

\* Validation of a signal against the fetched price fails.
ValidationFails(task) ==
    \/ task.take_profits = <<>>
    \/ validate_risk_order(side, task.cur_price, task.msg.stop_loss, NULL) # "ok"
    \/ \E i \in 1..Len(task.take_profits) :
          validate_risk_order(side, task.cur_price, NULL, task.take_profits[i][1]) # "ok"

DescriptiveStatus ==
    {"Invalid current price", "Invalid position side", "Invalid stop-loss",
     "Stop-loss must be BELOW current price", "Stop-loss must be ABOVE current price",
     "Stop-loss too close", "Invalid take-profit",
     "Take-profit must be ABOVE current price", "Take-profit must be BELOW current price",
     "Take-profit too close"}

\* C6: a signal whose risk validation fails is given up with a descriptive
\* entry_status, and no main or trigger order is ever sent for it.
C6_RejectedNeverOrders ==
    /\ [](\A s \in Signals :
            (sig[s].rec # 0 /\ ValidationFails(sig[s])) =>
                /\ s \notin mainPlaced
                /\ s \notin trigPlaced
                /\ sig[s].pc \in {"cst_push", "done"})
    /\ [][\A s \in Signals :
            (sig[s].pc = "hs_prices" /\ sig'[s].pc # "hs_prices" /\ ValidationFails(sig'[s])) =>
                /\ sig'[s].pc = "cst_push"
                /\ records'[sig'[s].rec].entry_status \in DescriptiveStatus]_vars

C6_Witness ==
    \E s \in Signals :
        /\ sig[s].pc = "done"
        /\ sig[s].rec # 0
        /\ ValidationFails(sig[s])
        /\ sig[s].cur_price = CurPrice
        /\ records[sig[s].rec].entry_status = "Stop-loss too close"

\* C7: the cancel of the previous trigger order is requested only when
\* the new trigger order of that kind is live on the exchange, so the
\* position keeps a live trigger of that kind through the modify.
C7_CancelAfterAccept ==
    [][(usr.pc = "mod_place" /\ usr'.pc = "mod_cancel") =>
          \E o \in liveTrig' : o.kind = usr.op /\ o.id # usr.old_id]_vars

\* C8: a TP modify whose new trigger order is accepted without an id
\* stores a non-null placeholder id in the slot, and no cancel is ever
\* requested for a placeholder id.
C8_PlaceholderIds ==
    /\ [](\A id \in cancelReqs : ~is_virtual(id))
    /\ [][(/\ usr.pc = "mod_place"
           /\ usr.op \in {"tp1", "tp2"}
           /\ usr'.pc # "mod_place"
           /\ usr'.resp = "noid") =>
              /\ old_trigger_id(posObjs'[usr.pos], usr.op) # NULL
              /\ is_virtual(old_trigger_id(posObjs'[usr.pos], usr.op))]_vars

C8_Witness ==
    /\ usr.op \in {"tp1", "tp2"}
    /\ usr.pc \in {"push", "notify"}
    /\ usr.resp = "ok"
    /\ usr.old_id # NULL
    /\ is_virtual(usr.old_id)
    /\ usr.new_id # usr.old_id
    /\ old_trigger_id(posObjs[usr.pos], usr.op) = usr.new_id
    /\ usr.old_id \notin cancelReqs

\* C9: a supervisor that runs out of time while its slot is not
\* in_position ends with entry_status 'failed. Reason: TIME-OUT', has sent
\* the cancel of all main orders and of all trigger orders, and leaves
\* pending_open cleared.
C9_TimeoutCleansUp ==
    [][\A s \in Signals :
          (/\ sup[s].pc = "cancel_trig"
           /\ sup'[s].pc \in {"push", "done"}
           /\ ~posObjs'[sup[s].pos].in_position) =>
              /\ records'[sup[s].rec].entry_status = ST_TIMEOUT
              /\ sup'[s].issued = {"main", "trigger"}
              /\ ~posObjs'[sup[s].pos].pending_open]_vars

C9_Witness ==
    \E s \in Signals :
        /\ sup[s].pc = "done"
        /\ sup[s].timed_out
        /\ ~stop_bot_iteration
        /\ records[sup[s].rec].entry_status = ST_TIMEOUT
        /\ ~posObjs[sup[s].pos].in_position
        /\ ~posObjs[sup[s].pos].pending_open

FailureReasons ==
    {ST_FAILED_LABEL, ST_FAILED_ERROR, ST_FAILED_EMPTY, ST_FAILED_UNKNOWN,
     ST_FAILED_NO_CONTRACTS, ST_FAILED_UNKNOWN_RESPONSE}

\* C10: force_position_close ends with entry_status 'closed manually',
\* the TP/SL statuses 'none' and a true result exactly when the exchange
\* accepted a closing order; otherwise entry_status is a failure reason
\* and the result is false.
C10_ClosedIffAccepted ==
    [][(usr.pc \in {"fc_status", "fc_market"} /\ usr'.pc \in {"push", "notify"}) =>
          LET record == records'[usr.rec]
          IN  IF usr'.accepted
              THEN /\ record.entry_status = ST_CLOSED_MANUALLY
                   /\ record.tp1_status = ST_NONE
                   /\ record.tp2_status = ST_NONE
                   /\ record.sl_status = ST_NONE
                   /\ usr'.result
              ELSE /\ record.entry_status \in FailureReasons
                   /\ ~usr'.result]_vars

\* The slot reads as holding a position.
SlotInPosition == slot # 0 /\ posObjs[slot].in_position

\* C11: the slot leaves in_position only through the reconciler's reset,
\* and no step of force_position_close or modify_risk_orders changes the
\* slot's in_position, pending_open, entry price or contract quantity.
C11_OnlyResetLeaves ==
    [][/\ (SlotInPosition /\ ~SlotInPosition') =>
            (recon.pc \in {"cancel_trig", "reset_push"} /\ resets' = resets + 1)
       /\ (usr' # usr /\ slot # 0) =>
            /\ slot' = slot
            /\ posObjs'[slot].in_position = posObjs[slot].in_position
            /\ posObjs'[slot].pending_open = posObjs[slot].pending_open
            /\ posObjs'[slot].entry_price = posObjs[slot].entry_price
            /\ posObjs'[slot].contracts = posObjs[slot].contracts]_vars

\* A closing sequence of force_position_close has already run to its end
\* for the position the anchor shows.
CloseAlreadyRun(rid) ==
    records[rid].entry_status \in {ST_CLOSED_MANUALLY, ST_FAILED_UNKNOWN_RESPONSE}

\* C12: for one open position force_position_close sends the requests of
\* at most one closing sequence; a call made after a closing sequence has
\* run, and before the reconciler reset the slot, sends no closing request.
C12_SingleCloseSequence ==
    [][(usr.pc = "idle" /\ usr'.pc \in {"fc_book", "fc_market"}) =>
            ~CloseAlreadyRun(usr'.rec)]_vars

\* The run of initial_order_template has reached its finally block.
IotEnd == {"iot_push", "done"}

\* The request a signal task waits for, in the order of the code.
IotSuccessors(pc) ==
    CASE pc = "iot_leverage" -> {"iot_margin"}
      [] pc = "iot_margin" -> {"iot_main"}
      [] pc = "iot_main" -> {"iot_tp", "iot_sl"}
      [] pc = "iot_tp" -> {"iot_tp", "iot_sl"}
      [] OTHER -> {}

C14_FailureWritten ==
    \A s \in Signals :
        (sig[s].pc \in IotEnd /\ sig[s].rec # 0)
            => records[sig[s].rec].entry_status # ST_WAITING

\* The k-th take-profit price of the signal as the parser delivered it.
SignalTp(msg, k) == IF k = 1 THEN msg.take_profit1 ELSE msg.take_profit2

\* The status field in which _apply_trigger_result leaves the k-th result.
TpStatus(record, k) == IF k = 1 THEN record.tp1_status ELSE record.tp2_status

\* The TP answers leave the SL request untouched: once the last TP is
\* answered, whatever the answers, the SL request of a signal with a
\* stop-loss is sent.
C15_SlAfterTp ==
    [][\A s \in Signals :
        (sig[s].pc = "iot_tp" /\ sig'[s].pc # "iot_tp"
            /\ compose_sl_order(sig[s].contracts, sig[s].msg.stop_loss).trigger_px # NULL)
        => sig'[s].pc = "iot_sl"]_vars

\* Each TP answer lands in the status field of its own number and the SL
\* answer in sl_status, whatever the other answers were; entry_status and
\* the main order id stay as the main-order step left them.
C15_OwnField ==
    [][\A s \in Signals :
        (sig[s].pc \in {"iot_tp", "iot_sl"} /\ sig'[s].pc \in IotEnd)
        => LET rid == sig[s].rec
               res == sig'[s].tp_results
           IN  /\ \A k \in 1..Len(res) :
                    TpStatus(records'[rid], k) =
                        IF res[k].kind = "label" THEN ST_FAILED_LABEL ELSE ST_PENDING
               /\ \A k \in (Len(res) + 1)..2 :
                    TpStatus(records'[rid], k) = TpStatus(records[rid], k)
               /\ sig[s].pc = "iot_tp" => records'[rid].sl_status = records[rid].sl_status
               /\ records'[rid].entry_status = records[rid].entry_status
               /\ posObjs'[sig[s].pos].order_id = posObjs[sig[s].pos].order_id]_vars

\* The k-th TP request is the one for the k-th take-profit price of the
\* signal.
C15_SignalOrder ==
    [][\A s \in Signals :
        (sig[s].pc \in {"iot_main", "iot_tp", "iot_sl"} /\ sig'[s].pc \in IotEnd)
        => \A k \in 1..Len(sig'[s].tp_results) :
               sig'[s].tp_orders[k].trigger_px = SignalTp(sig[s].msg, k)]_vars

\* C15: in the trigger placement of a position-open run a failed TP
\* request does not keep the SL request from being sent, an SL failure
\* alters no TP outcome, the outcome of the k-th TP of the signal goes to
\* tp{k}_status only and that of the SL to sl_status only, and neither
\* changes entry_status or the recorded main order id.
C15_TriggerIsolation ==
    /\ C15_SlAfterTp
    /\ C15_OwnField
    /\ C15_SignalOrder

\* C15 (amended): the same isolation, with the k-th TP taken from the list
\* build_take_profits returns, which is sorted by rising price (for a
\* SHORT signal the nearer target is number 2): the k-th TP request is the
\* one for the k-th price of that list, and its outcome goes to
\* tp{k}_status only.
C15_IsolationSortedList ==
    /\ C15_SlAfterTp
    /\ C15_OwnField
    /\ [][\A s \in Signals :
            (sig[s].pc \in {"iot_main", "iot_tp", "iot_sl"} /\ sig'[s].pc \in IotEnd)
            => \A k \in 1..Len(sig'[s].tp_results) :
                   sig'[s].tp_orders[k].trigger_px = sig[s].take_profits[k][1]]_vars

\* A run in which the first TP request failed and the SL trigger was
\* placed all the same.
C15_Witness ==
    \E s \in Signals :
        /\ sig[s].pc \in IotEnd
        /\ Len(sig[s].tp_results) = 2
        /\ sig[s].tp_results[1].kind = "label"
        /\ records[sig[s].rec].tp1_status = ST_FAILED_LABEL
        /\ records[sig[s].rec].tp2_status = ST_PENDING
        /\ records[sig[s].rec].sl_status = ST_PENDING
        /\ records[sig[s].rec].entry_status \in {ST_FILLED, ST_PENDING}

\* C16: when a position-open run whose main order was accepted ends, each
\* take-profit and the stop-loss the signal asked for has a status that is
\* "pending" or a "failed. Reason: ..." string; none is left at "none".
C16_NoSilentTrigger ==
    [][\A s \in Signals :
        (sig[s].pc \in {"iot_main", "iot_tp", "iot_sl"} /\ sig'[s].pc \in IotEnd
            /\ records'[sig[s].rec].entry_status \in {ST_FILLED, ST_PENDING})
        => /\ \A k \in 1..Len(sig[s].take_profits) :
                TpStatus(records'[sig[s].rec], k) # ST_NONE
           /\ sig[s].msg.stop_loss # NULL => records'[sig[s].rec].sl_status # ST_NONE]_vars

\* C17: when the stop-iteration flag of the context is set while _request
\* waits between two attempts, the loop ends at that attempt boundary with
\* an empty result and no further attempt; while the flag is not set the
\* next attempt is sent.
C17_StopEndsRetry ==
    [][(gate_client.pc = "sleeping" /\ gate_client' # gate_client) =>
          IF stop_bot_iteration
          THEN gate_client'.pc = "returned" /\ gate_client'.result \in {"empty", "None"}
          ELSE gate_client'.pc = "sending"]_vars

\* C18: a message is handed to handle_signal at most once: the hand-over
\* (the registration of its lock and the creation of the task) happens
\* only for a key that is not in tg_timing_cache and puts it there, and no
\* key ever leaves tg_timing_cache.
C18_HandedOnce ==
    [][/\ \A s \in Signals :
            (s \in signal_locks' /\ s \notin signal_locks)
                => (s \notin tg_timing_cache /\ s \in tg_timing_cache')
       /\ tg_timing_cache \subseteq tg_timing_cache']_vars

\* The first message has been dealt with and its lock is gone; the loop
\* has passed over it since and handed over the next message.
C18_Witness ==
    /\ sig[1].pc = "done"
    /\ 1 \in tg_timing_cache
    /\ 1 \notin signal_locks
    /\ sig[2].pc \notin {"idle", "done"}

\* C19: when handle_signal comes to its admission test for a slot that is
\* in_position or pending_open, it ends there: the slot's PositionState
\* and every OrderStatusRecord stay as they are, no exchange request is
\* sent, no record is created and nothing is pushed to the notifier.
C19_SkipWithoutEffect ==
    [][\A s \in Signals :
        (sig[s].pc \in {"hs_start", "hs_wait"} /\ sig'[s] # sig[s]
            /\ slot # 0 /\ first_update_done
            /\ (posObjs[slot].in_position \/ posObjs[slot].pending_open))
        => /\ sig'[s].pc = "done"
           /\ sig'[s].rec = 0
           /\ sig'[s].push = NoPush
           /\ slot' = slot
           /\ posObjs' = posObjs
           /\ records' = records
           /\ anchor' = anchor
           /\ mainPlaced' = mainPlaced
           /\ trigPlaced' = trigPlaced
           /\ exOrders' = exOrders
           /\ exSize' = exSize
           /\ liveTrig' = liveTrig]_vars

\* A second signal was turned away while the limit order of the first was
\* still waiting for its fill.
C19_Witness ==
    \E s \in Signals :
        /\ sig[s].pc = "done"
        /\ sig[s].rec = 0
        /\ slot # 0
        /\ posObjs[slot].pending_open
        /\ ~posObjs[slot].in_position

\* ------------------------------------------------------------------ C20
\* complete_signal_task after it stored the record in the book: the fields
\* its validation assigns with no `async with queues_msg_lock` around the
\* assignment, given the record as stored and as the validation left it.
cst_unlocked_writes(stored, record) ==
    {f \in {"entry_status", "tp1_status", "tp2_status"} : record[f] # stored[f]}

\* C20: every write to a field of an OrderStatusRecord happens while the
\* writing task holds queues_msg_lock: the step of the signal task that
\* stores the record in the book assigns none of its statuses outside the
\* lock.
C20_WritesUnderLock ==
    [][\A s \in Signals :
        (sig[s].pc = "hs_prices" /\ sig[s].rec = 0 /\ sig'[s].rec # 0)
        => LET record == records'[sig'[s].rec]
               stored == [record EXCEPT !.entry_status = ST_WAITING,
                                        !.tp1_status = ST_NONE,
                                        !.tp2_status = ST_NONE]
           IN  cst_unlocked_writes(stored, record) = {}]_vars

\* ------------------------------------------------------------------ C21
\* C21: a signal rejected by a computed precondition leaves the slot's
\* PositionState as it was before the signal was handled and places no
\* order.  Stated for the first signal of a run, whose slot held the
\* template values before: when its validation has failed, the slot still
\* holds the template values and no order request has been sent.
C21_RejectionLeavesSlot ==
    \A s \in Signals :
        (/\ sig[s].pc = "cst_push"
         /\ resets = 0
         /\ \A t \in Signals \ {s} : sig[t].pc = "idle")
        => /\ posObjs[sig[s].pos] = pos_vars_root_template
           /\ mainPlaced = {}
           /\ trigPlaced = {}

\* ------------------------------------------------------------------ C22
\* The step ends a reset cycle: the slot holds a new template dict and
\* the book entry is gone.
ResetDone ==
    /\ recon'.pc = "idle"
    /\ resets' = resets + 1
    /\ ~anchor'.exists
    /\ slot' # slot
    /\ posObjs'[slot'] = pos_vars_root_template

C23_SecondTpFurther ==
    (/\ calc.fn = "build_take_profits"
     /\ calc.args[2] # NULL /\ calc.args[3] = NULL /\ calc.args[4] # NULL)
    => LET sign == IF calc.args[1] = "LONG" THEN 1 ELSE -1
           entry_price == calc.args[5]
           tp1 == calc.args[2]
           made == {calc.out[i][1] : i \in 1..Len(calc.out)} \ {tp1}
       IN  sign * (tp1 - entry_price) > 0
           => \E tp2 \in made : /\ sign * (tp2 - entry_price) > 0
                                /\ Abs(tp2 - entry_price) > Abs(tp1 - entry_price)

\* ------------------------------------------------------------------ C24
\* C24: build_take_profits returns at most two (price, volume) pairs, in
\* ascending order of price whatever the order of the input and the side,
\* with volumes that sum to 100: one take-profit at 100 or two at 50 / 50,
\* each pair being a take-profit of the signal.
C24_SortedSplit ==
    (calc.fn = "build_take_profits" /\ calc.out # <<>>)
    => LET out == calc.out
       IN  /\ Len(out) <= 2
           /\ \A i \in 1..Len(out) : out[i][1] > 0
           /\ Len(out) = 1 => out[1][2] = 100
           /\ Len(out) = 2 => /\ out[1][1] <= out[2][1]
                              /\ out[1][2] = 50 /\ out[2][2] = 50

\* ------------------------------------------------------------------ C25
\* C25: contract_calc returns either no quantity or a positive whole
\* multiple of lot_size, the multiple nearest to raw_contracts / lot_size
\* (the even one of two equally near); it returns no quantity exactly when
\* an input is not positive or that nearest multiple is zero.  With
\* raw_contracts / lot_size = n / d the nearest k has 2 * |k * d - n| <= d.
C25_NearestLot ==
    calc.fn = "contract_calc"
    => LET margin_size == calc.args[1]
           entry_price == calc.args[2]
           leverage == calc.args[3]
           ctVal == calc.args[4]
           lotSz == calc.args[5]
           n == margin_size * leverage
           d == entry_price * ctVal * lotSz
           k == calc.out \div lotSz
       IN  IF \E x \in {margin_size, entry_price, leverage, ctVal, lotSz} : x <= 0
           THEN calc.out = NULL
           ELSE IF calc.out = NULL
           THEN 2 * n <= d
           ELSE /\ calc.out > 0
                /\ calc.out % lotSz = 0
                /\ 2 * Abs(k * d - n) <= d
                /\ 2 * Abs(k * d - n) = d => k % 2 = 0

\* A quantity that had to be rounded, and came out above one lot.
C25_Witness ==
    /\ calc.fn = "contract_calc"
    /\ calc.out # NULL
    /\ calc.out > calc.args[5]
    /\ (calc.args[1] * calc.args[3]) % (calc.args[2] * calc.args[4] * calc.args[5]) # 0

\* ------------------------------------------------------------------ C26
\* The distance |price - cur_price| is more than EPSILON_NUM / EPSILON_DEN
\* percent of cur_price.
C26_Beyond(cur_price, price) ==
    Abs(cur_price - price) * 100 * EPSILON_DEN > EPSILON_NUM * cur_price

\* C26: for a stop-loss and a take-profit validate_risk_order returns
\* 'ok' exactly when the stop-loss is on the losing side of the current
\* price and the take-profit on the winning side, each more than the
\* threshold away; a distance below or at the threshold is 'too close'.
C26_OkIffBeyond ==
    (/\ calc.fn = "validate_risk_order"
     /\ calc.args[1] \in Sides
     /\ calc.args[2] # NULL /\ calc.args[2] > 0
     /\ calc.args[3] # NULL /\ calc.args[4] # NULL)
    => LET sign == IF calc.args[1] = "LONG" THEN 1 ELSE -1
           cur_price == calc.args[2]
           sl == calc.args[3]
           tp == calc.args[4]
       IN  /\ calc.out = "ok"
                <=> /\ sign * (cur_price - sl) > 0 /\ sl > 0
                    /\ sign * (tp - cur_price) > 0 /\ tp > 0
                    /\ C26_Beyond(cur_price, sl)
                    /\ C26_Beyond(cur_price, tp)
           /\ (sign * (cur_price - sl) > 0 /\ sl > 0 /\ ~C26_Beyond(cur_price, sl))
                => calc.out = "Stop-loss too close"

\* ------------------------------------------------------------------ C27
\* C27: normalize_response returns the object itself for a single object
\* and the first object for a non-empty array of objects; get_data_list
\* returns the list itself for an array and, for a keyed container, the
\* list stored under its container key (orders, positions, price_orders or
\* data).
C27_ShapesReduced ==
    /\ calc.fn = "normalize_response"
        => LET resp == calc.args[1]
           IN  /\ resp.t = "dict" => calc.out = resp
               /\ (resp.t = "list" /\ resp.v # <<>> /\ resp.v[1].t = "dict")
                    => calc.out = resp.v[1]
    /\ calc.fn = "get_data_list"
        => LET resp == calc.args[1]
           IN  /\ resp.t = "list" => calc.out = resp
               /\ resp.t = "dict"
                    => \A key \in {"orders", "positions", "price_orders", "data"} :
                          (DOMAIN resp.v = {key} /\ resp.v[key].t = "list")
                          => calc.out = resp.v[key]

\* C28: an exception raised inside a reconciliation cycle is caught and
\* logged: the task is then back at the head of its loop and never outside
\* it, and from the head of the loop the next cycle starts exactly when the
\* stop-iteration flag is not set.
C28_LoopSurvives ==
    /\ recon.pc \in {"idle", "active_push", "pnl", "cancel_main", "cancel_trig", "reset_push"}
    /\ reconLog.raised => recon.pc = "idle"
    /\ (recon.pc = "idle" /\ slot # 0) => (ENABLED RecFetch <=> ~stop_bot_iteration)

\* A cycle has just ended in the except branch and the flag is not set.
C28_Witness ==
    /\ reconLog.raised
    /\ recon.pc = "idle"
    /\ slot # 0
    /\ ~stop_bot_iteration

\* C29: in a limit force close the reduce-only market order is sent only
\* after the wait and a status query that did not report the limit order
\* filled or closed, and after a cancel request for that limit order (an
\* accepted cancel leaves no limit order resting); the market order never
\* follows the status query directly.
C29_MarketAfterCancel ==
    [][/\ (usr'.pc = "fc_market" /\ usr.pc # "fc_market" /\ usr'.close_type = "limit")
            => /\ usr.pc = "fc_cancel"
               /\ faultsLeft' = faultsLeft => ~usr'.limit_live
       /\ usr.pc = "fc_status" => usr'.pc # "fc_market"]_vars

\* C30: an attempt of _request that received an HTTP response, whatever
\* its status and body, returns to the caller and is not followed by
\* another attempt; a further attempt is sent only after a transport error
\* or a timeout, and the error body of a rejected request is returned as
\* it is.
C30_ResponseEndsRequest ==
    [][/\ (gate_client' # gate_client
            /\ gate_client'.event \in {"http_2xx", "http_error", "http_not_json",
                                      "http_undecodable"})
            => gate_client'.pc = "returned"
       /\ (gate_client.pc = "sleeping" /\ gate_client'.pc = "sending")
            => gate_client.event = "transport"
       /\ (gate_client' # gate_client /\ gate_client'.event = "http_error")
            => gate_client'.result = "label"]_vars

\* The status field and the trigger id a modify request is about.
C31_Status(record, op) ==
    IF op = "tp1" THEN record.tp1_status
    ELSE IF op = "tp2" THEN record.tp2_status ELSE record.sl_status

\* C31: when the new trigger of a modify was accepted and the cancel of
\* the previous trigger fails, the slot keeps the id of the new trigger, a
\* status field that reads 'modified' still reads 'modified', and the only
\* cancel request of the modify is the one for the previous trigger.
C31_FailedCancelKeepsNew ==
    [][(usr.pc = "mod_cancel" /\ usr'.pc # "mod_cancel" /\ faultsLeft' < faultsLeft)
        => /\ old_trigger_id(posObjs'[usr.pos], usr.op) = usr.new_id
           /\ C31_Status(records[usr.rec], usr.op) = ST_MODIFIED
                => C31_Status(records'[usr.rec], usr.op) = ST_MODIFIED
           /\ usr.new_id \notin cancelReqs'
           /\ cancelReqs' = cancelReqs]_vars

\* The cancel of the previous trigger has failed: the record reads
\* 'modified', the slot holds the new id and both triggers are live.
C31_Witness ==
    /\ usr.op = "sl"
    /\ usr.pc \in {"push", "notify"}
    /\ usr.old_id # NULL
    /\ usr.new_id # NULL
    /\ faultsLeft < MaxFaults
    /\ records[usr.rec].sl_status = ST_MODIFIED
    /\ posObjs[usr.pos].sl_order_id = usr.new_id
    /\ \E o \in liveTrig : o.id = usr.old_id
    /\ \E o \in liveTrig : o.id = usr.new_id

\* C32: a slot's in_position flag becomes true only in a state in which
\* its pending_open flag is set, for market and for limit entries.
C32_OpenFromPending ==
    [][\A i \in DOMAIN posObjs :
        (~posObjs[i].in_position /\ posObjs'[i].in_position) => posObjs[i].pending_open]_vars

C34_ResetOnlyWhenFlat ==
    [][(recon.pc = "idle" /\ recon'.pc = "pnl") => exSize = 0]_vars

\* C36: the supervisor writes 'failed. Reason: TIME-OUT' and sends its
\* cancel requests only when order_timeout has elapsed with the slot not
\* in position; when its loop ends on the stop-iteration flag it does
\* neither.
C36_TimeoutOnlyOnExpiry ==
    [][\A s \in Signals :
        (sup'[s].pc = "cancel_main" /\ sup[s].pc # "cancel_main")
            => /\ sup'[s].expired
               /\ ~posObjs[sup[s].pos].in_position]_vars

\* C37: no slot is in_position while the record published for it reads
\* 'failed. Reason: TIME-OUT'.
C37_NoOpenTimedOut ==
    \A s \in Signals :
        (sup[s].pos # 0 /\ sup[s].rec # 0 /\ posObjs[sup[s].pos].in_position)
            => records[sup[s].rec].entry_status # ST_TIMEOUT

\* C38: once a reset of the slot by the reconciler has completed,
\* order_status_book gets an entry for the slot again only by a step of a
\* signal task, also when a modify or a force close was in flight during
\* the reset.
C38_BookEmptyAfterReset ==
    [][(resets > 0 /\ ~anchor.exists /\ anchor'.exists)
        => \E s \in Signals : sig'[s] # sig[s]]_vars

\* C35: at most one reconciliation loop is alive at any time: the loop of
\* one trading iteration has ended before the next iteration starts its
\* own.
C35_OneReconcilerLoop == core.loops <= 1

\* C39: a START that was accepted is not discarded by run_forever: once
\* start_bot_iteration is set, it is cleared before _run_iteration has
\* been entered only by a STOP command.
C39_StartNotDiscarded ==
    [][(core.start_bot_iteration /\ ~core.served /\ ~core'.start_bot_iteration)
        => stop_bot_iteration']_vars

\* C40: every tagged post the watcher accepts is in context.message_cache
\* once the handler has run, also after the watcher's cache was trimmed.
C40_AcceptedVisible ==
    [][message_caches' # message_caches
        => LET cache == message_caches'[1]
           IN  cache # <<>> /\ cache[Len(cache)] = tg_watcher'.last]_vars

====
